---------------------------- MODULE Spec2Model ----------------------------
(***************************************************************************)
(* A model of the clustering pretext-task training code of radioSSL:       *)
(*   tools.py     sinkhorn, roi_align_intersect, ce_loss, swav_loss,       *)
(*                AverageMeter                                             *)
(*   train_3d.py  train_cluster_inner, train_cluster_patch_inner,          *)
(*                train_pcrlv2_inner                                       *)
(*                                                                         *)
(* Tensor elements are floating-point numbers.  They are modelled by       *)
(* extended rationals <<n, d>>: d > 0 is the finite number n/d in lowest   *)
(* terms, <<1,0>> is +inf, <<-1,0>> is -inf and <<0,0>> is NaN, with the   *)
(* IEEE-754 rules for the special values (x/0, 0/0, 0*inf, inf-inf, and    *)
(* comparisons with NaN being false).  These numbers carry no rounding:    *)
(* they give the value a float operation approximates, and serve the       *)
(* properties that hold up to floating tolerance and those about the       *)
(* special values.  Where the exact float32 result matters (the index      *)
(* arithmetic of roi_align_intersect, the values sinkhorn returns) the     *)
(* operations are modelled bit for bit, rounding included, further down.   *)
(* The sign of zero is not modelled.                                       *)
(***************************************************************************)
EXTENDS Integers, Sequences, FiniteSets, TLC

(***************************************************************************)
(* Extended rational arithmetic: the float operations the code uses,       *)
(* without their rounding.                                                 *)
(***************************************************************************)
Abs(x) == IF x < 0 THEN -x ELSE x

Sign(x) == IF x > 0 THEN 1 ELSE IF x < 0 THEN -1 ELSE 0

GCD[a \in Nat, b \in Nat] == IF b = 0 THEN a ELSE GCD[b, a % b]

\* n/d brought to the canonical form; d = 0 gives +inf, -inf or NaN.
Reduced[n \in Int, d \in Int] ==
    IF d = 0 THEN <<Sign(n), 0>>
    ELSE LET g == GCD[Abs(n), Abs(d)]
             s == Sign(d)
         IN  <<(s * n) \div g, (s * d) \div g>>

Norm(n, d) == Reduced[n, d]

NaN == <<0, 0>>
PosInf == <<1, 0>>
NegInf == <<-1, 0>>
Zero == <<0, 1>>
One == <<1, 1>>

R(n, d) == Norm(n, d)

IsNaN(x) == x = NaN
IsInf(x) == x[2] = 0 /\ x[1] # 0

\* The three operations below are functions of their operands, which makes
\* TLC evaluate each operand once.
Floats == Int \X Int

\* a * b, unrounded (F32Mul below is the float32 product)
Product[a \in Floats, b \in Floats] ==
    IF a[2] = 0 \/ b[2] = 0 \/ a[1] = 0 \/ b[1] = 0
    THEN Norm(a[1] * b[1], a[2] * b[2])
    ELSE LET g1 == GCD[Abs(a[1]), b[2]]
             g2 == GCD[Abs(b[1]), a[2]]
         IN  <<(a[1] \div g1) * (b[1] \div g2), (a[2] \div g2) * (b[2] \div g1)>>

FMul(a, b) == Product[a, b]

\* a / b, unrounded (F32Div below is the float32 division)
Quotient[a \in Floats, b \in Floats] ==
    IF IsInf(a) /\ b[2] # 0 /\ b[1] < 0
    THEN <<-a[1], 0>>
    ELSE IF a[2] = 0 \/ b[2] = 0 \/ a[1] = 0 \/ b[1] = 0
    THEN Norm(a[1] * b[2], a[2] * b[1])
    ELSE FMul(a, Norm(b[2], b[1]))

FDiv(a, b) == Quotient[a, b]

\* a + b, unrounded (F32Add below is the float32 sum)
Sum[a \in Floats, b \in Floats] ==
    IF IsInf(a) /\ IsInf(b) THEN (IF a = b THEN a ELSE NaN)
    ELSE IF a[2] = 0 \/ b[2] = 0
    THEN Norm(a[1] * b[2] + b[1] * a[2], a[2] * b[2])
    ELSE LET g == GCD[a[2], b[2]]
         IN  Norm(a[1] * (b[2] \div g) + b[1] * (a[2] \div g), (a[2] \div g) * b[2])

FAdd(a, b) == Sum[a, b]

FNeg(a) == <<-a[1], a[2]>>

\* variant of FGt: a comparison with NaN taken as true
FGtUnordered(a, b) ==
    IF a = NaN \/ b = NaN THEN TRUE
    ELSE IF a[2] = 0 \/ b[2] = 0
    THEN (IF a = b THEN FALSE
          ELSE IF a = PosInf \/ b = NegInf THEN TRUE
          ELSE FALSE)
    ELSE a[1] * b[2] > b[1] * a[2]

\* a > b (false when either is NaN)
FGt(a, b) ==
    IF IsNaN(a) \/ IsNaN(b) THEN FALSE
    ELSE IF a[2] = 0 \/ b[2] = 0
    THEN (IF a = b THEN FALSE
          ELSE IF a = PosInf \/ b = NegInf THEN TRUE
          ELSE FALSE)
    ELSE a[1] * b[2] > b[1] * a[2]

RECURSIVE FSumSeq(_)
FSumSeq(s) == IF s = <<>> THEN Zero ELSE FAdd(FSumSeq(SubSeq(s, 1, Len(s) - 1)), s[Len(s)])


(***************************************************************************)
(* State.  Each component below is driven by its own specification; the    *)
(* variables of the others stay at their idle values.                      *)
(***************************************************************************)
VARIABLES
    \* sinkhorn (tools.py) and its caller's teacher-target step (train_3d.py)
    skpc,       \* position: "idle", "call", "loop", "row", "ret", "gt"
    caller,     \* "direct" or "teacher" (train_cluster_patch_inner)
    Q,          \* the caller's K x (B*N) matrix, rescaled in place
    Q0,         \* the matrix as it was passed in
    nmb_iters,  \* iteration count argument
    iters,      \* loop iterations completed
    u,          \* row sums taken by the last row step
    skOut,      \* the returned (B*N) x K matrix
    dimB,       \* batch size B of the teacher-target caller
    dimN,       \* patches per sample N of the teacher-target caller
    gt          \* teacher target B x N x K after .T.reshape((B,N,K))

skVars == <<skpc, caller, Q, Q0, nmb_iters, iters, u, skOut, dimB, dimN, gt>>

VARIABLES
    \* the student prediction of train_cluster_inner (train_3d.py)
    smpc,       \* position: "idle", "logits", "pred"
    smShape,    \* <<B, K, H, W, D>>, the shape of model.module(x1)
    smExp,      \* exp of the logits, one positive number per element
    smPred      \* pred1 after pred1.softmax(2)

smVars == <<smpc, smShape, smExp, smPred>>

VARIABLES
    \* roi_align_intersect (tools.py), for one batch element
    roipc,      \* position: "idle", "call", "returned", "raised"
    box1,       \* <<x_min, x_max, y_min, y_max, z_min, z_max>> of crop 1
    box2,       \* the same of crop 2
    inPred1, inPred2, inGt1, inGt2,   \* the argument tensors
    rng1,       \* <<x1_1, x1_2, y1_1, y1_2, z1_1, z1_2>>: index range in view 1
    rng2,       \* <<x2_1, x2_2, y2_1, y2_2, z2_1, z2_2>>: index range in view 2
    roiOut      \* <<roi_pred1, roi_pred2, roi_gt1, roi_gt2>> once returned

roiVars == <<roipc, box1, box2, inPred1, inPred2, inGt1, inGt2, rng1, rng2, roiOut>>

VARIABLES
    \* ce_loss and swav_loss (tools.py)
    losspc,     \* position: "idle", "call", "returned"
    lossFn,     \* the function called: "ce_loss" or "swav_loss"
    lossGt,     \* gt (gt1 of swav_loss), flattened
    lossOut,    \* out (out1 of swav_loss), flattened
    lossGt2,    \* gt2 of swav_loss
    lossOut2,   \* out2 of swav_loss
    lossRes     \* the returned loss

lossVars == <<losspc, lossFn, lossGt, lossOut, lossGt2, lossOut2, lossRes>>

VARIABLES
    \* one call of train_cluster_inner / train_cluster_patch_inner /
    \* train_pcrlv2_inner (train_3d.py)
    trpc,       \* position inside the batch loop, "idle" or "done"
    fn,         \* "cluster", "cluster_patch" or "pcrlv2"
    clusterLoss,\* args.cluster_loss: "ce" or "swav"
    epoch,      \* the epoch argument
    nBatches,   \* len(train_loader)
    idx,        \* batches fetched so far
    bsz,        \* batch size B
    loss,       \* the scalar loss of the current batch
    parts,      \* its terms loss1, loss2 and local_loss
    params,     \* number of optimizer.step updates applied to the parameters
    paramsAtBatch, \* params when the current batch was fetched
    calls,      \* what has been invoked for the current batch, in order
    meters,     \* the four loss meters
    skipped,    \* batches discarded by the guard
    ret,        \* the returned averages
    applied,    \* the losses folded into the loss meters, in order, each
                \* with its terms
    store       \* what each tensor storage of the teacher-target step holds

trVars == <<trpc, fn, clusterLoss, epoch, nBatches, idx, bsz, loss, parts, params,
            paramsAtBatch, calls, meters, skipped, ret, applied, store>>

VARIABLES
    \* one AverageMeter (tools.py) and the calls made on it
    mt,         \* the object: [val, avg, sum, count]; <<>> when idle
    mtHist,     \* the update(val, n) calls since the last reset, as <<val, n>>
    mtLast,     \* the last call: "init", "reset", "update", or "raised" for an
                \* update that ended in ZeroDivisionError
    mtOps       \* calls made so far

mtVars == <<mt, mtHist, mtLast, mtOps>>

VARIABLES
    \* the epoch loop of train_3d (train_3d.py)
    eppc,       \* position: "idle", "adjust", "train", "validate", "save",
                \* "done", "raised"
    argEpochs,  \* args.epochs
    argModel,   \* args.model
    ep,         \* the loop variable epoch
    trainCalls, \* the epochs the per-epoch training function was called with
    saved,      \* the epochs at which a checkpoint was written
    files,      \* the checkpoint files on disk: path -> state written last
    argClusterLoss, \* args.cluster_loss
    argVis,     \* args.vis
    valCalls,   \* the epochs the validation function was called with
    argTensorboard, \* args.tensorboard
    argWriter   \* the writer argument is a SummaryWriter (TRUE) or None

epVars == <<eppc, argEpochs, argModel, ep, trainCalls, saved, files,
            argClusterLoss, argVis, valCalls, argTensorboard, argWriter>>

VARIABLES
    \* the index ranges of roi_align_intersect (tools.py) along one axis of
    \* a grid of any size
    axpc,       \* position: "idle", "call", "done"
    axBox1,     \* box1, a crop of extent 1 along y and z
    axBox2,     \* box2, likewise
    axSize,     \* the grid size H
    axRng1,     \* <<x1_1, x1_2>>
    axRng2      \* <<x2_1, x2_2>>

axVars == <<axpc, axBox1, axBox2, axSize, axRng1, axRng2>>

VARIABLES
    \* sinkhorn (tools.py) in float32 arithmetic
    fspc,       \* position: "idle", "call", "loop", "row", "ret"
    fsQ,        \* the caller's K x (B*N) matrix of float32 values
    fsQ0,       \* the whole numbers it held when it was passed in
    fsNmbIters, \* iteration count argument
    fsIters,    \* loop iterations completed
    fsOut       \* the returned (B*N) x K matrix

fsVars == <<fspc, fsQ, fsQ0, fsNmbIters, fsIters, fsOut>>

VARIABLES
    \* the calls of roi_align_intersect (tools.py) that a batch loop makes one
    \* after the other, for one batch element, on tensors held as objects
    rrpc,       \* position: "idle", "call", "converted", "ranged", "allocated",
                \* "returned", "raised"
    heap,       \* the live tensors: object -> [dtype, data]
    rrEnv,      \* the local names of roi_align_intersect: name -> object
    rrRng,      \* <<index range in view 1, index range in view 2>>
    rrRet,      \* the objects the last call returned, held by the caller
    rrCalls,    \* calls begun so far
    rrAtCall,   \* what the six argument tensors held when the call began
    rrFirst,    \* the first call: its arguments and what it returned
    rrOther     \* a call with other boxes than the first call's has returned

rrVars == <<rrpc, heap, rrEnv, rrRng, rrRet, rrCalls, rrAtCall, rrFirst, rrOther>>

vars == <<skVars, smVars, roiVars, lossVars, trVars, mtVars, epVars, axVars,
          fsVars, rrVars>>

FsIdle ==
    /\ fspc = "idle" /\ fsQ = <<>> /\ fsQ0 = <<>> /\ fsNmbIters = 0
    /\ fsIters = 0 /\ fsOut = <<>>

RrIdle ==
    /\ rrpc = "idle" /\ heap = <<>> /\ rrEnv = <<>> /\ rrRng = <<>>
    /\ rrRet = <<>> /\ rrCalls = 0 /\ rrAtCall = <<>> /\ rrFirst = <<>>
    /\ rrOther = FALSE

AxIdle ==
    /\ axpc = "idle" /\ axBox1 = <<>> /\ axBox2 = <<>> /\ axSize = 0
    /\ axRng1 = <<>> /\ axRng2 = <<>>

\* no file written yet
NoFiles == [p \in {} |-> p]

MtIdle == mt = <<>> /\ mtHist = <<>> /\ mtLast = "idle" /\ mtOps = 0

EpIdle ==
    /\ eppc = "idle" /\ argEpochs = 0 /\ argModel = "none" /\ ep = 0
    /\ trainCalls = <<>> /\ saved = <<>> /\ files = NoFiles
    /\ argClusterLoss = "none" /\ argVis = FALSE /\ valCalls = <<>>
    /\ argTensorboard = FALSE /\ argWriter = FALSE

SmIdle == smpc = "idle" /\ smShape = <<>> /\ smExp = <<>> /\ smPred = <<>>

RoiIdle ==
    /\ roipc = "idle" /\ box1 = <<>> /\ box2 = <<>>
    /\ inPred1 = <<>> /\ inPred2 = <<>> /\ inGt1 = <<>> /\ inGt2 = <<>>
    /\ rng1 = <<>> /\ rng2 = <<>> /\ roiOut = <<>>

LossIdle ==
    /\ losspc = "idle" /\ lossFn = "none" /\ lossGt = <<>> /\ lossOut = <<>>
    /\ lossGt2 = <<>> /\ lossOut2 = <<>> /\ lossRes = <<>>

TrIdle ==
    /\ trpc = "idle" /\ fn = "none" /\ clusterLoss = "none" /\ epoch = 0
    /\ nBatches = 0 /\ idx = 0 /\ bsz = 0 /\ loss = <<>> /\ parts = <<>>
    /\ params = 0
    /\ paramsAtBatch = 0 /\ calls = <<>> /\ meters = <<>> /\ skipped = 0
    /\ ret = <<>> /\ applied = <<>> /\ store = <<>>

(***************************************************************************)
(* Bounds of the sinkhorn model.                                           *)
(***************************************************************************)
MaxCells == 4      \* K * (B*N) <= MaxCells
MaxQ == 2          \* entries of Q are drawn from 0..MaxQ
MaxIters == 2      \* nmb_iters of a direct call is drawn from 1..MaxIters

\* nmb_iters=3 at both call sites of train_cluster_patch_inner
TeacherIters == 3

QVals == {R(v, 1) : v \in 0..MaxQ}

(***************************************************************************)
(* Matrix helpers: a matrix is a sequence of rows.                         *)
(***************************************************************************)
NRows(m) == Len(m)
NCols(m) == Len(m[1])

\* torch.sum(m, dim=1)
RowSums(m) == [k \in 1..NRows(m) |-> FSumSeq(m[k])]

\* torch.sum(m, dim=0)
ColSums(m) == [j \in 1..NCols(m) |-> FSumSeq([k \in 1..NRows(m) |-> m[k][j]])]

\* torch.sum(m)
TotalSum(m) == FSumSeq(RowSums(m))

\* m.t()
Transpose(m) == [j \in 1..NCols(m) |-> [k \in 1..NRows(m) |-> m[k][j]]]

\* variant of DivByTotal: an all-zero matrix replaced by the uniform one
DivByTotalGuarded(m) ==
    LET s == TotalSum(m)
    IN  [k \in 1..NRows(m) |-> [j \in 1..NCols(m) |->
            IF s = Zero THEN R(1, NRows(m) * NCols(m)) ELSE FDiv(m[k][j], s)]]

\* Q /= sum_Q
DivByTotal(m) ==
    LET s == TotalSum(m)
    IN  [k \in 1..NRows(m) |-> [j \in 1..NCols(m) |-> FDiv(m[k][j], s)]]

\* variant of ScaleRows: the rows divided by their sums without the target r
ScaleRowsNoTarget(m, uu) ==
    [k \in 1..NRows(m) |-> [j \in 1..NCols(m) |-> FMul(m[k][j], FDiv(One, uu[k]))]]

\* Q *= (r / u).unsqueeze(1), r = ones(K) / K
ScaleRows(m, uu) ==
    LET r == R(1, NRows(m))
    IN  [k \in 1..NRows(m) |-> [j \in 1..NCols(m) |-> FMul(m[k][j], FDiv(r, uu[k]))]]

\* variant of ScaleCols: the column step left out
ScaleColsSkipped(m) == m

\* Q *= (c / torch.sum(Q, dim=0)).unsqueeze(0), c = ones(B) / B
ScaleCols(m) ==
    LET c == R(1, NCols(m))
        cs == ColSums(m)
    IN  [k \in 1..NRows(m) |-> [j \in 1..NCols(m) |-> FMul(m[k][j], FDiv(c, cs[j]))]]

\* variant of FinalAssign: Q.t() returned without the last normalisation
FinalAssignNoNormalise(m) == Transpose(m)

\* (Q / torch.sum(Q, dim=0, keepdim=True)).t().float()
FinalAssign(m) ==
    LET cs == ColSums(m)
    IN  Transpose([k \in 1..NRows(m) |-> [j \in 1..NCols(m) |-> FDiv(m[k][j], cs[j])]])

\* t.reshape((B, N, K)) of a matrix t: the elements in row-major order
Flat(m) == [f \in 1..(NRows(m) * NCols(m)) |->
               m[((f - 1) \div NCols(m)) + 1][((f - 1) % NCols(m)) + 1]]

Reshape3(m, b, n, k) ==
    [bi \in 1..b |-> [ni \in 1..n |-> [ki \in 1..k |->
        Flat(m)[((bi - 1) * n + (ni - 1)) * k + ki]]]]

\* sinkhorn(args, Q=flat_cos_sim, nmb_iters=3).T.reshape((B,N,K))
TeacherTarget(out, b, n, k) == Reshape3(Transpose(out), b, n, k)


(***************************************************************************)
(* sinkhorn(args, Q, nmb_iters), tools.py, one action per statement of     *)
(* its body, and the teacher-target step of train_cluster_patch_inner      *)
(* that calls it.                                                          *)
(***************************************************************************)
Shapes == {km \in (1..MaxCells) \X (1..MaxCells) : km[1] * km[2] <= MaxCells}

Matrices(k, m) == [1..k -> [1..m -> QVals]]

SkIdle ==
    /\ skpc = "idle" /\ caller = "none" /\ Q = <<>> /\ Q0 = <<>>
    /\ nmb_iters = 0 /\ iters = 0 /\ u = <<>> /\ skOut = <<>>
    /\ dimB = 0 /\ dimN = 0 /\ gt = <<>>

\* A call: either with a free nmb_iters, or from the teacher-target step with
\* Q = exp(flat_cos_sim / eps) of shape K x (B*N) and nmb_iters = 3.
SkInit ==
    /\ skpc = "call"
    /\ \E km \in Shapes : Q \in Matrices(km[1], km[2])
    /\ Q0 = Q
    /\ \/ /\ caller = "direct"
          /\ nmb_iters \in 1..MaxIters
          /\ dimB = 0 /\ dimN = 0
       \/ /\ caller = "teacher"
          /\ nmb_iters = TeacherIters
          /\ dimB \in 1..NCols(Q) /\ dimN \in 1..NCols(Q)
          /\ dimB * dimN = NCols(Q)
    /\ iters = 0 /\ u = <<>> /\ skOut = <<>> /\ gt = <<>>

\* sum_Q = torch.sum(Q); Q /= sum_Q; u, r, c set up
SinkhornNormalize ==
    /\ skpc = "call"
    /\ Q' = DivByTotal(Q)
    /\ u' = [k \in 1..NRows(Q) |-> Zero]
    /\ skpc' = "loop"
    /\ UNCHANGED <<caller, Q0, nmb_iters, iters, skOut, dimB, dimN, gt>>
    /\ UNCHANGED <<smVars, roiVars, lossVars, trVars, mtVars, epVars, axVars, fsVars, rrVars>>

\* u = torch.sum(Q, dim=1); Q *= (r / u).unsqueeze(1)
SinkhornRowStep ==
    /\ skpc = "loop" /\ iters < nmb_iters
    /\ u' = RowSums(Q)
    /\ Q' = ScaleRows(Q, RowSums(Q))
    /\ skpc' = "row"
    /\ UNCHANGED <<caller, Q0, nmb_iters, iters, skOut, dimB, dimN, gt>>
    /\ UNCHANGED <<smVars, roiVars, lossVars, trVars, mtVars, epVars, axVars, fsVars, rrVars>>

\* Q *= (c / torch.sum(Q, dim=0)).unsqueeze(0)
SinkhornColStep ==
    /\ skpc = "row"
    /\ Q' = ScaleCols(Q)
    /\ iters' = iters + 1
    /\ skpc' = "loop"
    /\ UNCHANGED <<caller, Q0, nmb_iters, u, skOut, dimB, dimN, gt>>
    /\ UNCHANGED <<smVars, roiVars, lossVars, trVars, mtVars, epVars, axVars, fsVars, rrVars>>

\* return (Q / torch.sum(Q, dim=0, keepdim=True)).t().float()
SinkhornReturn ==
    /\ skpc = "loop" /\ iters = nmb_iters
    /\ skOut' = FinalAssign(Q)
    /\ skpc' = "ret"
    /\ UNCHANGED <<caller, Q, Q0, nmb_iters, iters, u, dimB, dimN, gt>>
    /\ UNCHANGED <<smVars, roiVars, lossVars, trVars, mtVars, epVars, axVars, fsVars, rrVars>>

\* gt1 = sinkhorn(...).T.reshape((B,N,K)); gt1 = gt1 / temp (temp = 1)
TeacherReshape ==
    /\ skpc = "ret" /\ caller = "teacher"
    /\ gt' = TeacherTarget(skOut, dimB, dimN, NRows(Q))
    /\ skpc' = "gt"
    /\ UNCHANGED <<caller, Q, Q0, nmb_iters, iters, u, skOut, dimB, dimN>>
    /\ UNCHANGED <<smVars, roiVars, lossVars, trVars, mtVars, epVars, axVars, fsVars, rrVars>>

SkNext ==
    \/ SinkhornNormalize
    \/ SinkhornRowStep
    \/ SinkhornColStep
    \/ SinkhornReturn
    \/ TeacherReshape

InitSinkhorn == SkInit /\ SmIdle /\ RoiIdle /\ LossIdle /\ TrIdle /\ MtIdle /\ EpIdle /\ AxIdle /\ FsIdle /\ RrIdle

SpecSinkhorn == InitSinkhorn /\ [][SkNext]_vars

(***************************************************************************)
(* Claims about sinkhorn and the teacher target.                           *)
(***************************************************************************)
AllPositive(m) == \A k \in 1..NRows(m) : \A j \in 1..NCols(m) : FGt(m[k][j], Zero)

\* C4: for every strictly positive K x (B*N) matrix Q and nmb_iters >= 1,
\* sinkhorn returns a (B*N) x K matrix in which every row sums to 1.
C4_RowsSumToOne ==
    (skpc \in {"ret", "gt"} /\ AllPositive(Q0) /\ nmb_iters >= 1) =>
        /\ NRows(skOut) = NCols(Q0)
        /\ \A j \in 1..NRows(skOut) :
              /\ Len(skOut[j]) = NRows(Q0)
              /\ FSumSeq(skOut[j]) = One

\* C4 witness: a call on a non-uniform 2 x 2 matrix has returned.
C4_Witness ==
    /\ skpc = "ret" /\ AllPositive(Q0) /\ nmb_iters >= 1
    /\ NRows(Q0) = 2 /\ NCols(Q0) = 2
    /\ Q0[1][1] # Q0[1][2]
    /\ skOut[1][1] # skOut[1][2]

\* C2: the teacher target of train_cluster_patch_inner is a per-patch
\* distribution: gt[b,n,:] is the Sinkhorn assignment row of patch b*N+n and
\* sums to 1 over the K clusters.
C2_TeacherTargetPerPatch ==
    skpc = "gt" =>
        \A b \in 1..dimB : \A n \in 1..dimN :
            /\ gt[b][n] = skOut[(b - 1) * dimN + n]
            /\ FSumSeq(gt[b][n]) = One


\* every entry of m equals v
AllEqualTo(m, v) == \A k \in 1..NRows(m) : \A j \in 1..NCols(m) : m[k][j] = v

\* C14: sinkhorn called with an all-zero Q raises no error and applies no
\* clamp: it returns a (B*N) x K matrix all of whose entries are NaN.
C14_AllZeroGivesNaN ==
    (AllEqualTo(Q0, Zero) /\ skpc # "call") =>
        /\ AllEqualTo(Q, NaN)
        /\ skpc \in {"ret", "gt"} =>
              /\ NRows(skOut) = NCols(Q0) /\ NCols(skOut) = NRows(Q0)
              /\ AllEqualTo(skOut, NaN)

\* C14 witness: the call on the all-zero 2 x 2 matrix has returned.
C14_Witness ==
    /\ skpc = "ret" /\ NRows(Q0) = 2 /\ NCols(Q0) = 2
    /\ AllEqualTo(Q0, Zero)
    /\ skOut = <<<<NaN, NaN>>, <<NaN, NaN>>>>

\* every element of the sequence t equals v
AllSumsEqual(t, v) == \A i \in 1..Len(t) : t[i] = v

\* C23: for strictly positive Q the loop body runs exactly nmb_iters times with
\* no convergence test; immediately after the row-rescaling step every row of
\* Q sums to 1/K, and immediately after the column-rescaling step every column
\* of Q sums to 1/(B*N).
C23_IterationMarginals ==
    (skpc # "idle" /\ AllPositive(Q0)) =>
        /\ iters <= nmb_iters
        /\ skpc \in {"ret", "gt"} => iters = nmb_iters
        /\ skpc = "row" =>
              /\ iters < nmb_iters
              /\ AllSumsEqual(RowSums(Q), R(1, NRows(Q0)))
        /\ (skpc = "loop" /\ iters >= 1) =>
              AllSumsEqual(ColSums(Q), R(1, NCols(Q0)))

\* C23 witness: the row step of the second iteration on a non-uniform 2 x 2
\* matrix has just run.
C23_Witness ==
    /\ skpc = "row" /\ iters = 1 /\ AllPositive(Q0)
    /\ NRows(Q0) = 2 /\ NCols(Q0) = 2 /\ Q0[1][1] # Q0[2][2]
    /\ Q[1][1] # Q[1][2]

\* C25: sinkhorn mutates its argument in place: after a call with
\* nmb_iters >= 1 the caller's Q holds the rescaled matrix (total sum 1, every
\* column summing to 1/(B*N)) and not the input similarities, while the
\* returned assignment is a separate tensor; a second call on the same Q
\* object would not see the original input.
C25_ArgumentRescaledInPlace ==
    (skpc \in {"ret", "gt"} /\ AllPositive(Q0) /\ nmb_iters >= 1) =>
        /\ NRows(Q) = NRows(Q0) /\ NCols(Q) = NCols(Q0)
        /\ TotalSum(Q) = One
        /\ AllSumsEqual(ColSums(Q), R(1, NCols(Q0)))
        /\ TotalSum(Q0) # One => Q # Q0
        /\ NRows(skOut) = NCols(Q0) /\ NCols(skOut) = NRows(Q0)
        /\ (NRows(Q0) > 1 \/ NCols(Q0) > 1) => skOut # Q

\* C25 witness: after the call on [[1,1],[1,2]] the caller's matrix differs
\* from the input in every entry.
C25_Witness ==
    /\ skpc = "ret" /\ nmb_iters = 1
    /\ Q0 = <<<<R(1, 1), R(1, 1)>>, <<R(1, 1), R(2, 1)>>>>
    /\ \A k \in 1..2 : \A j \in 1..2 : Q[k][j] # Q0[k][j]
    /\ TotalSum(Q) = One


(***************************************************************************)
(* The student prediction of train_cluster_inner:                          *)
(*     pred1 = model.module(x1); pred1 = pred1.softmax(2)                  *)
(* The network is outside this repository; its output is a tensor of       *)
(* logits of shape B x K x H x W x D.  A logit x is held as exp(x), drawn  *)
(* from 1..MaxExp, so that softmax is exact:                               *)
(*     softmax(x)_i = exp(x_i) / sum_j exp(x_j).                           *)
(***************************************************************************)
MaxVox == 4        \* B * K * H * W * D <= MaxVox
MaxExp == 2        \* exp(logit) is drawn from 1..MaxExp

\* the dim argument of pred1.softmax(2), counted from 0
SoftmaxDim == 2

\* the axis of the K clusters in a B x K x H x W x D tensor, counted from 0
ClusterAxis == 1

Prod5(sh) == sh[1] * sh[2] * sh[3] * sh[4] * sh[5]

TensorShapes ==
    {sh \in (1..MaxVox) \X (1..MaxVox) \X (1..MaxVox) \X (1..MaxVox) \X (1..MaxVox) :
        Prod5(sh) <= MaxVox}

Indices(sh) == (1..sh[1]) \X (1..sh[2]) \X (1..sh[3]) \X (1..sh[4]) \X (1..sh[5])

\* the elements of t that differ from position i at most along axis dim
\* (dim counted from 0), in order
Fibre(t, sh, i, dim) == [a \in 1..sh[dim + 1] |-> t[[i EXCEPT ![dim + 1] = a]]]

\* t.softmax(dim) of a tensor given by the exponentials of its elements
Softmax(e, sh, dim) ==
    [i \in Indices(sh) |->
        FDiv(R(e[i], 1), FSumSeq([a \in 1..sh[dim + 1] |->
                                     R(e[[i EXCEPT ![dim + 1] = a]], 1)]))]

SmInit ==
    /\ smpc = "logits"
    /\ smShape \in TensorShapes
    /\ smExp \in [Indices(smShape) -> 1..MaxExp]
    /\ smPred = <<>>

\* pred1 = pred1.softmax(2)  # Convert to probabilities
PredictSoftmax ==
    /\ smpc = "logits"
    /\ smPred' = Softmax(smExp, smShape, SoftmaxDim)
    /\ smpc' = "pred"
    /\ UNCHANGED <<smShape, smExp>>
    /\ UNCHANGED <<skVars, roiVars, lossVars, trVars, mtVars, epVars, axVars, fsVars, rrVars>>

SmNext == PredictSoftmax

InitPredict == SmInit /\ SkIdle /\ RoiIdle /\ LossIdle /\ TrIdle /\ MtIdle /\ EpIdle /\ AxIdle /\ FsIdle /\ RrIdle

SpecPredict == InitPredict /\ [][SmNext]_vars

\* C3: the student prediction B x K x H x W x D that enters the loss of
\* train_cluster_inner is a distribution over the K clusters at every spatial
\* location: for every sample and voxel the K values pred[b,:,h,w,d] sum to 1.
C3_PredSumsToOneOverK ==
    smpc = "pred" =>
        \A i \in Indices(smShape) :
            FSumSeq(Fibre(smPred, smShape, i, ClusterAxis)) = One


(***************************************************************************)
(* roi_align_intersect(pred1, pred2, gt1, gt2, box1, box2), tools.py.      *)
(* The body of the loop over b_idx is the same for every batch element     *)
(* and reads only that element's boxes and tensors; the model holds one    *)
(* element.  A tensor of that element is a function from the voxels of     *)
(* the H x W x D grid (indices from 0) to the K-vector stored there; the   *)
(* argument tensors hold a distinct K-vector <<name, voxel>> at every      *)
(* voxel, so that an output tensor shows which input voxel it was read     *)
(* from.  Box coordinates are whole numbers.                               *)
(***************************************************************************)
GridH == 3         \* H of the processed grid
GridW == 2         \* W
GridD == 1         \* D
MaxCoordX == 3     \* x coordinates of the boxes are drawn from 0..MaxCoordX
MaxCoordY == 1     \* y coordinates
MaxCoordZ == 2     \* z coordinates

Grid == <<GridH, GridW, GridD>>

Vox == (0..(GridH - 1)) \X (0..(GridW - 1)) \X (0..(GridD - 1))

Max2(a, b) == IF a >= b THEN a ELSE b
Min2(a, b) == IF a <= b THEN a ELSE b

\* float32 arithmetic on small non-negative integers.  A float32 holds 24
\* significant bits; each operation rounds its exact result to the nearest
\* such value, ties to the even one.
Pow2[n \in Nat] == 2 ^ n

\* a / b rounded to the nearest integer, ties to even
RoundHalfEven[a \in Nat, b \in Nat] ==
    LET q == a \div b
        r == a % b
    IN  IF 2 * r > b \/ (2 * r = b /\ q % 2 = 1) THEN q + 1 ELSE q

\* the least k from k0 on with num * 2^k / den >= 2^23, for num, den > 0
BinExp[num \in Nat, den \in Nat, k0 \in Nat] ==
    IF num * Pow2[k0] >= den * Pow2[23] THEN k0 ELSE BinExp[num, den, k0 + 1]

\* the float32 num / den, for num, den > 0, as <<m, k>> standing for m / 2^k
F32Quot[num \in Nat, den \in Nat] ==
    <<RoundHalfEven[num * Pow2[BinExp[num, den, 0]], den], BinExp[num, den, 0]>>

\* the least j from j0 on with p / 2^j < 2^24
DropBits[p \in Nat, j0 \in Nat] ==
    IF p \div Pow2[j0] < Pow2[24] THEN j0 ELSE DropBits[p, j0 + 1]

\* floor of the float32 product (num / den) * mult, the quotient a float32
F32ScaledFloor[num \in Nat, den \in Nat, mult \in Nat] ==
    IF num = 0 \/ mult = 0 THEN 0
    ELSE LET q == F32Quot[num, den]
             p == q[1] * mult
             j == DropBits[p, 0]
         IN  (RoundHalfEven[p, Pow2[j]] * Pow2[j]) \div Pow2[q[2]]

\* (num / den * size).int() for den > 0: the float32 quotient, the float32
\* product, cut towards zero
TruncScaled(num, den, size) ==
    IF num >= 0 THEN F32ScaledFloor[num, den, size]
    ELSE -F32ScaledFloor[-num, den, size]

\* x1 = torch.maximum(box1[:,0], box2[:,0]); x2 = torch.minimum(box1[:,1], box2[:,1])
\* for axis a (1, 2, 3 for x, y, z)
IntersectLo(b1, b2, a) == Max2(b1[2 * a - 1], b2[2 * a - 1])
IntersectHi(b1, b2, a) == Min2(b1[2 * a], b2[2 * a])

\* variant of AxisRange: the end computed from x1 instead of x2
AxisRangeEndFromLo(bv, b1, b2, a) ==
    LET lo == bv[2 * a - 1]
        ext == bv[2 * a] - bv[2 * a - 1]
    IN  <<TruncScaled(IntersectLo(b1, b2, a) - lo, ext, Grid[a]),
          TruncScaled(IntersectLo(b1, b2, a) - lo, ext, Grid[a])>>

\* variant of AxisRangeIn: the fraction taken of box 1's extent in both views
AxisRangeInOtherExtent(bv, b1, b2, a, size) ==
    LET lo == bv[2 * a - 1]
        ext == b1[2 * a] - b1[2 * a - 1]
    IN  <<TruncScaled(IntersectLo(b1, b2, a) - lo, ext, size),
          TruncScaled(IntersectHi(b1, b2, a) - lo, ext, size)>>

\* The index range of the intersection in the view whose box is bv, on axis
\* a of a grid with size voxels along it:
\*   x1_1 = (x1-box1[:,0]) / H1 ; x1_2 = (x2-box1[:,0]) / H1
\*   x1_1 = (x1_1 * H).int()    ; x1_2 = (x1_2 * H).int()
AxisRangeIn(bv, b1, b2, a, size) ==
    LET lo == bv[2 * a - 1]
        ext == bv[2 * a] - bv[2 * a - 1]
    IN  <<TruncScaled(IntersectLo(b1, b2, a) - lo, ext, size),
          TruncScaled(IntersectHi(b1, b2, a) - lo, ext, size)>>

\* variant of AxisRange: the fraction measured from box 1's origin in both views
AxisRangeOtherOrigin(bv, b1, b2, a) ==
    LET lo == b1[2 * a - 1]
        ext == bv[2 * a] - bv[2 * a - 1]
    IN  <<TruncScaled(IntersectLo(b1, b2, a) - lo, ext, Grid[a]),
          TruncScaled(IntersectHi(b1, b2, a) - lo, ext, Grid[a])>>

\* ... on the grid (H, W, D) of the tensors
AxisRange(bv, b1, b2, a) == AxisRangeIn(bv, b1, b2, a, Grid[a])

IndexRange(bv, b1, b2) ==
    <<AxisRange(bv, b1, b2, 1)[1], AxisRange(bv, b1, b2, 1)[2],
      AxisRange(bv, b1, b2, 2)[1], AxisRange(bv, b1, b2, 2)[2],
      AxisRange(bv, b1, b2, 3)[1], AxisRange(bv, b1, b2, 3)[2]>>

\* Python's t[start:stop] on an axis of the given size: a negative index
\* counts from the end, and both ends are clipped to the axis
SliceIndex(i, size) == IF i < 0 THEN Max2(i + size, 0) ELSE Min2(i, size)
SliceStart(start, stop, size) == SliceIndex(start, size)
SliceLen(start, stop, size) ==
    Max2(SliceIndex(stop, size) - SliceIndex(start, size), 0)

\* F.interpolate(..., size=(H,W,D)), mode 'nearest': the input index read for
\* output index i on an axis resampled from inLen to outLen elements,
\*     min(floorf(i * scale), inLen - 1)  with the float32 scale = inLen / outLen
\* (the kernel's shortcuts for outLen = inLen and outLen = 2 * inLen give the
\* same index)
NearestSource(i, inLen, outLen) ==
    Min2(F32ScaledFloor[inLen, outLen, i], inLen - 1)

\* the slice t[:, x_1:x_2, y_1:y_2, z_1:z_2] is empty on some axis
SliceEmpty(rng) ==
    \E a \in 1..3 : SliceLen(rng[2 * a - 1], rng[2 * a], Grid[a]) = 0

\* variant of Resample: the tensor handed back without slicing
ResampleWholeTensor(t, rng) == [v \in Vox |-> t[v]]

\* The input indices the first n output indices read on an axis of the given
\* size sliced start:stop and resampled back to size
SourceIndices[start \in Int, stop \in Int, size \in Nat, n \in Nat] ==
    IF n = 0 THEN <<>>
    ELSE Append(SourceIndices[start, stop, size, n - 1],
                SliceStart(start, stop, size)
                  + NearestSource(n - 1, SliceLen(start, stop, size), size))

\* F.interpolate(t[b_idx, :, x_1:x_2, y_1:y_2, z_1:z_2].unsqueeze(0), size=(H,W,D))
Resample(t, rng) ==
    LET xs == SourceIndices[rng[1], rng[2], GridH, GridH]
        ys == SourceIndices[rng[3], rng[4], GridW, GridW]
        zs == SourceIndices[rng[5], rng[6], GridD, GridD]
    IN  [v \in Vox |-> t[<<xs[v[1] + 1], ys[v[2] + 1], zs[v[3] + 1]>>]]

Boxes(mx, my, mz) ==
    {b \in (0..mx) \X (0..mx) \X (0..my) \X (0..my) \X (0..mz) \X (0..mz) :
        b[1] < b[2] /\ b[3] < b[4] /\ b[5] < b[6]}

Labelled(name) == [v \in Vox |-> <<name, v>>]

\* a first call with boxes drawn from bs
RoiCall(bs) ==
    /\ roipc = "call"
    /\ box1 \in bs
    /\ box2 \in bs
    /\ inPred1 = Labelled("pred1") /\ inPred2 = Labelled("pred2")
    /\ inGt1 = Labelled("gt1") /\ inGt2 = Labelled("gt2")
    /\ rng1 = <<>> /\ rng2 = <<>> /\ roiOut = <<>>

RoiInit == RoiCall(Boxes(MaxCoordX, MaxCoordY, MaxCoordZ))

\* The whole call.  F.interpolate raises on an input with an empty spatial
\* dimension, and nothing is returned then.
RoiAlignIntersect ==
    /\ roipc = "call"
    /\ rng1' = IndexRange(box1, box1, box2)
    /\ rng2' = IndexRange(box2, box1, box2)
    /\ IF SliceEmpty(rng1') \/ SliceEmpty(rng2')
       THEN /\ roipc' = "raised"
            /\ roiOut' = <<>>
       ELSE /\ roipc' = "returned"
            /\ roiOut' = <<Resample(inPred1, rng1'), Resample(inPred2, rng2'),
                           Resample(inGt1, rng1'), Resample(inGt2, rng2')>>
    /\ UNCHANGED <<box1, box2, inPred1, inPred2, inGt1, inGt2>>
    /\ UNCHANGED <<skVars, smVars, lossVars, trVars, mtVars, epVars, axVars, fsVars, rrVars>>

RoiNext == RoiAlignIntersect

InitRoi == RoiInit /\ SkIdle /\ SmIdle /\ LossIdle /\ TrIdle /\ MtIdle /\ EpIdle /\ AxIdle /\ FsIdle /\ RrIdle

SpecRoi == InitRoi /\ [][RoiNext]_vars


(***************************************************************************)
(* The calls of roi_align_intersect that a batch loop makes one after the  *)
(* other (train_3d.py 300, 553), for one batch element, with the tensors   *)
(* held as objects, so that what a statement writes lands in the object    *)
(* its name is bound to.  An object is <<name, n>>: n = 0 for the six      *)
(* tensors the caller passes, the number of the call for a tensor made     *)
(* inside it.  The loops catch nothing: a call that raises ends them.      *)
(***************************************************************************)
MaxRoiCalls == 3   \* calls made in a row
MaxRepX == 2       \* x coordinates of the boxes of these calls: 0..MaxRepX

RepeatBoxes == Boxes(MaxRepX, 1, 1)

\* roi_align_intersect(pred1, pred2, gt1, gt2, box1, box2)
ArgNames == {"pred1", "pred2", "gt1", "gt2", "box1", "box2"}
TensorArgs == <<"pred1", "pred2", "gt1", "gt2">>

\* return roi_pred1, roi_pred2, roi_gt1, roi_gt2
OutNames == <<"roi_pred1", "roi_pred2", "roi_gt1", "roi_gt2">>

ArgObj(name) == <<name, 0>>
ArgObjs == {ArgObj(name) : name \in ArgNames}

Tensor(dtype, data) == [dtype |-> dtype, data |-> data]

\* the heap h with the object obj holding t
Store(h, obj, t) == [o \in DOMAIN h \cup {obj} |-> IF o = obj THEN t ELSE h[o]]

\* the heap h with the objects outside live dropped
Keep(h, live) == [o \in DOMAIN h \cap live |-> h[o]]

\* what the six argument tensors hold
ArgContents(h) == [name \in ArgNames |-> h[ArgObj(name)]]

\* The tensors of a batch.  pred1 and pred2 come out of softmax as float32;
\* gt1 and gt2 are int64 one-hot tensors in train_cluster_inner and float32
\* sinkhorn assignments in train_cluster_patch_inner.  The dtype of the crop
\* coordinates is not read.
BatchTensors(b1, b2, gtType) ==
    [o \in ArgObjs |->
        IF o[1] = "box1" THEN Tensor("coords", b1)
        ELSE IF o[1] = "box2" THEN Tensor("coords", b2)
        ELSE IF o[1] \in {"gt1", "gt2"} THEN Tensor(gtType, Labelled(o[1]))
        ELSE Tensor("float32", Labelled(o[1]))]

RoiRepeatInit ==
    /\ rrpc = "call"
    /\ \E b1 \in RepeatBoxes, b2 \in RepeatBoxes, gtType \in {"int64", "float32"} :
          heap = BatchTensors(b1, b2, gtType)
    /\ rrAtCall = ArgContents(heap)
    /\ rrEnv = <<>> /\ rrRng = <<>> /\ rrRet = <<>> /\ rrCalls = 0
    /\ rrFirst = <<>> /\ rrOther = FALSE

\* t.float(): t itself when it is float32 already, otherwise a new float32
\* tensor with the same elements
FloatObj(h, obj, n) == IF h[obj].dtype = "float32" THEN obj ELSE <<obj[1], n>>

FloatHeap(h, obj, n) ==
    IF h[obj].dtype = "float32" THEN h
    ELSE Store(h, <<obj[1], n>>, Tensor("float32", h[obj].data))

\* the parameters bound, H1 ... D2 and the shape read, then
\* pred1 = pred1.float(); pred2 = pred2.float(); gt1 = gt1.float(); gt2 = gt2.float()
RoiConvert ==
    /\ rrpc = "call"
    /\ rrCalls' = rrCalls + 1
    /\ rrEnv' = [name \in ArgNames |->
                   IF name \in {"box1", "box2"} THEN ArgObj(name)
                   ELSE FloatObj(heap, ArgObj(name), rrCalls + 1)]
    /\ heap' = FloatHeap(FloatHeap(FloatHeap(FloatHeap(heap,
                   ArgObj("pred1"), rrCalls + 1), ArgObj("pred2"), rrCalls + 1),
                   ArgObj("gt1"), rrCalls + 1), ArgObj("gt2"), rrCalls + 1)
    /\ rrpc' = "converted"
    /\ UNCHANGED <<rrRng, rrRet, rrAtCall, rrFirst, rrOther>>
    /\ UNCHANGED <<skVars, smVars, roiVars, lossVars, trVars, mtVars, epVars, axVars, fsVars>>

\* x1 ... z2, the fractions and the index ranges: every statement binds its
\* name to a new tensor
RoiRanges ==
    /\ rrpc = "converted"
    /\ LET b1 == heap[rrEnv["box1"]].data
           b2 == heap[rrEnv["box2"]].data
       IN  rrRng' = <<IndexRange(b1, b1, b2), IndexRange(b2, b1, b2)>>
    /\ rrpc' = "ranged"
    /\ UNCHANGED <<heap, rrEnv, rrRet, rrCalls, rrAtCall, rrFirst, rrOther>>
    /\ UNCHANGED <<skVars, smVars, roiVars, lossVars, trVars, mtVars, epVars, axVars, fsVars>>

\* the all-zero tensor; its K-vector is written like those of the argument
\* tensors, as a pair
Zeros == [v \in Vox |-> <<"zeros", <<0, 0, 0>>>>]

\* variant of ZerosObj: the output written into the tensor it is shaped after
ZerosObjInPlace(src, name, n) == src

\* torch.zeros(size=src.shape).to(device): a new tensor
ZerosObj(src, name, n) == <<name, n>>

\* roi_pred1 = torch.zeros(size=pred1.shape).to(device), and the same for
\* roi_pred2, roi_gt1, roi_gt2
RoiAllocate ==
    /\ rrpc = "ranged"
    /\ LET made == [i \in 1..4 |-> ZerosObj(rrEnv[TensorArgs[i]], OutNames[i], rrCalls)]
       IN  /\ rrEnv' = [name \in ArgNames \cup {OutNames[i] : i \in 1..4} |->
                          IF name \in ArgNames THEN rrEnv[name]
                          ELSE made[CHOOSE i \in 1..4 : OutNames[i] = name]]
           /\ heap' = Store(Store(Store(Store(heap,
                          made[1], Tensor("float32", Zeros)),
                          made[2], Tensor("float32", Zeros)),
                          made[3], Tensor("float32", Zeros)),
                          made[4], Tensor("float32", Zeros))
    /\ rrpc' = "allocated"
    /\ UNCHANGED <<rrRng, rrRet, rrCalls, rrAtCall, rrFirst, rrOther>>
    /\ UNCHANGED <<skVars, smVars, roiVars, lossVars, trVars, mtVars, epVars, axVars, fsVars>>

\* roi[b_idx] = F.interpolate(t[b_idx, :, x_1:x_2, y_1:y_2, z_1:z_2].unsqueeze(0), size=(H,W,D)):
\* the resampled slice of t is written into roi
AlignInto(h, roi, t, rng) == Store(h, roi, Tensor("float32", Resample(h[t].data, rng)))

\* The loop body for the batch element and the return.  The four statements
\* run in order; F.interpolate raises on a slice that is empty, which ends
\* the call with what was written before it in place.  The locals of the
\* call are dropped when it ends; on return the caller's four names are
\* rebound to the new tensors.
RoiAlign ==
    /\ rrpc = "allocated"
    /\ LET h1 == AlignInto(heap, rrEnv["roi_pred1"], rrEnv["pred1"], rrRng[1])
           h2 == AlignInto(h1, rrEnv["roi_pred2"], rrEnv["pred2"], rrRng[2])
           h3 == AlignInto(h2, rrEnv["roi_gt1"], rrEnv["gt1"], rrRng[1])
           h4 == AlignInto(h3, rrEnv["roi_gt2"], rrEnv["gt2"], rrRng[2])
           outs == [i \in 1..4 |-> rrEnv[OutNames[i]]]
       IN  IF SliceEmpty(rrRng[1])
           THEN /\ rrpc' = "raised"
                /\ heap' = Keep(heap, ArgObjs \cup {rrRet[i] : i \in DOMAIN rrRet})
                /\ UNCHANGED <<rrRet, rrFirst, rrOther>>
           ELSE IF SliceEmpty(rrRng[2])
           THEN /\ rrpc' = "raised"
                /\ heap' = Keep(h1, ArgObjs \cup {rrRet[i] : i \in DOMAIN rrRet})
                /\ UNCHANGED <<rrRet, rrFirst, rrOther>>
           ELSE /\ rrpc' = "returned"
                /\ heap' = Keep(h4, ArgObjs \cup {outs[i] : i \in 1..4})
                /\ rrRet' = outs
                /\ rrFirst' = IF rrCalls = 1
                              THEN [args |-> rrAtCall,
                                    out |-> [i \in 1..4 |-> h4[outs[i]].data]]
                              ELSE rrFirst
                /\ rrOther' = (rrOther \/ (rrCalls > 1 /\ rrAtCall # rrFirst.args))
    /\ rrEnv' = <<>>
    /\ UNCHANGED <<rrRng, rrCalls, rrAtCall>>
    /\ UNCHANGED <<skVars, smVars, roiVars, lossVars, trVars, mtVars, epVars, axVars, fsVars>>

\* the next batch of the loop: the crop coordinates are those of the new
\* batch; what the last call returned stays bound until the next one returns
NextBatch ==
    /\ rrpc = "returned" /\ rrCalls < MaxRoiCalls
    /\ \E b1 \in RepeatBoxes, b2 \in RepeatBoxes :
          heap' = Store(Store(heap, ArgObj("box1"), Tensor("coords", b1)),
                        ArgObj("box2"), Tensor("coords", b2))
    /\ rrAtCall' = ArgContents(heap')
    /\ rrpc' = "call"
    /\ rrRng' = <<>>
    /\ UNCHANGED <<rrEnv, rrRet, rrCalls, rrFirst, rrOther>>
    /\ UNCHANGED <<skVars, smVars, roiVars, lossVars, trVars, mtVars, epVars, axVars, fsVars>>

RoiRepeatNext ==
    \/ RoiConvert
    \/ RoiRanges
    \/ RoiAllocate
    \/ RoiAlign
    \/ NextBatch

InitRoiRepeat ==
    /\ RoiRepeatInit
    /\ SkIdle /\ SmIdle /\ RoiIdle /\ LossIdle /\ TrIdle /\ MtIdle /\ EpIdle
    /\ AxIdle /\ FsIdle

SpecRoiRepeat == InitRoiRepeat /\ [][RoiRepeatNext]_vars

\* a call of roi_align_intersect has ended
RoiDone == roipc \in {"returned", "raised"}

(***************************************************************************)
(* Claims about roi_align_intersect.                                       *)
(***************************************************************************)

\* the boxes' intersection has positive extent on all three axes
Overlapping(b1, b2) == \A a \in 1..3 : IntersectLo(b1, b2, a) < IntersectHi(b1, b2, a)

\* b1 contains b2 on all three axes
Contains(b1, b2) == \A a \in 1..3 : b1[2 * a - 1] <= b2[2 * a - 1] /\ b2[2 * a] <= b1[2 * a]

FullRange == <<0, GridH, 0, GridW, 0, GridD>>

IsGridTensor(t) == DOMAIN t = Vox

\* C5: for every pair of boxes with a non-empty intersection the call
\* completes and returns four tensors of spatial shape (H,W,D); the index
\* range extracted from each view is never empty.
C5_OverlapAlwaysReturns ==
    (RoiDone /\ Overlapping(box1, box2)) =>
        /\ roipc = "returned"
        /\ ~SliceEmpty(rng1) /\ ~SliceEmpty(rng2)
        /\ Len(roiOut) = 4
        /\ \A o \in 1..4 : IsGridTensor(roiOut[o])

(***************************************************************************)
(* The index ranges of roi_align_intersect along x alone, tools.py          *)
(* 613-665, on grids large enough for the float32 rounding of the           *)
(* fraction to reach the index.  Box 1 starts at 0; both boxes have extent *)
(* 1 along y and z.                                                         *)
(***************************************************************************)
MaxAxisSize == 22  \* the grid size H is GridH or MaxAxisSize; the extents
                   \* of the boxes and box 2's origin go up to MaxAxisSize

AxisSizes == {GridH, MaxAxisSize}

AxisBox(lo, hi) == <<lo, hi, 0, 1, 0, 1>>

AxInit ==
    /\ axpc = "call"
    /\ axSize \in AxisSizes
    /\ \E e1 \in 1..MaxAxisSize : axBox1 = AxisBox(0, e1)
    /\ \E l2 \in 0..MaxAxisSize, e2 \in 1..MaxAxisSize : axBox2 = AxisBox(l2, l2 + e2)
    /\ axRng1 = <<>> /\ axRng2 = <<>>

\* x1_1, x1_2 and x2_1, x2_2 of roi_align_intersect
AxisIndex ==
    /\ axpc = "call"
    /\ axRng1' = AxisRangeIn(axBox1, axBox1, axBox2, 1, axSize)
    /\ axRng2' = AxisRangeIn(axBox2, axBox1, axBox2, 1, axSize)
    /\ axpc' = "done"
    /\ UNCHANGED <<axBox1, axBox2, axSize>>
    /\ UNCHANGED <<skVars, smVars, roiVars, lossVars, trVars, mtVars, epVars, fsVars, rrVars>>

AxNext == AxisIndex

InitAxis ==
    AxInit /\ SkIdle /\ SmIdle /\ RoiIdle /\ LossIdle /\ TrIdle /\ MtIdle /\ EpIdle /\ FsIdle /\ RrIdle

SpecAxis == InitAxis /\ [][AxNext]_vars

\* the index range rng (along x, on a grid of size voxels) of the view with
\* box bv, mapped back to source-volume coordinates, is exactly the
\* intersection
MapsBackExactly(rng, bv, b1, b2, size) ==
    LET lo == bv[1]
        ext == bv[2] - bv[1]
    IN  /\ rng[1] * ext = (IntersectLo(b1, b2, 1) - lo) * size
        /\ rng[2] * ext = (IntersectHi(b1, b2, 1) - lo) * size

\* ... lies at most one voxel of that view below the intersection, at either
\* end
MapsBackWithinVoxel(rng, bv, b1, b2, size) ==
    LET lo == bv[1]
        ext == bv[2] - bv[1]
        pLo == (IntersectLo(b1, b2, 1) - lo) * size
        pHi == (IntersectHi(b1, b2, 1) - lo) * size
    IN  /\ pLo - ext <= rng[1] * ext /\ rng[1] * ext <= pLo
        /\ pHi - ext <= rng[2] * ext /\ rng[2] * ext <= pHi

\* C6 as stated: for overlapping boxes, mapping each view's index range
\* [start,end) back through that view's own box gives the same interval for
\* both views, the box intersection.
C6_SamePhysicalInterval ==
    (axpc = "done" /\ Overlapping(axBox1, axBox2)) =>
        /\ MapsBackExactly(axRng1, axBox1, axBox1, axBox2, axSize)
        /\ MapsBackExactly(axRng2, axBox2, axBox1, axBox2, axSize)

\* C6 as amended: for overlapping boxes, each view's index range mapped back
\* through that view's own box is the box intersection with each end moved
\* down by at most one voxel of that view (crop extent / grid size).
C6_IntervalWithinOneVoxel ==
    (axpc = "done" /\ Overlapping(axBox1, axBox2)) =>
        /\ MapsBackWithinVoxel(axRng1, axBox1, axBox1, axBox2, axSize)
        /\ MapsBackWithinVoxel(axRng2, axBox2, axBox1, axBox2, axSize)

\* C6 witness: on overlapping boxes whose intersection starts on a voxel
\* boundary of view 1, view 1's range starts one whole voxel below it, and
\* view 2's range is exact.
C6_Witness ==
    /\ axpc = "done" /\ Overlapping(axBox1, axBox2)
    /\ (axRng1[1] + 1) * (axBox1[2] - axBox1[1])
          = (IntersectLo(axBox1, axBox2, 1) - axBox1[1]) * axSize
    /\ MapsBackExactly(axRng2, axBox2, axBox1, axBox2, axSize)

\* C7: if the boxes do not overlap on some axis the degenerate case is
\* handled explicitly: the resample step is not run on an empty or inverted
\* range and zero tensors of the input shape are returned.
C7_NoOverlapReturnsZeros ==
    (RoiDone /\ ~Overlapping(box1, box2)) =>
        /\ roipc = "returned"
        /\ Len(roiOut) = 4
        /\ \A o \in 1..4 : roiOut[o] = [v \in Vox |-> "zeros"]

\* C8: when box1 = box2 the index ranges are the full extent
\* [0,H) x [0,W) x [0,D) for both views and the four returned tensors equal
\* the four input tensors element for element.
C8_IdenticalBoxesIdentity ==
    (RoiDone /\ box1 = box2) =>
        /\ roipc = "returned"
        /\ rng1 = FullRange /\ rng2 = FullRange
        /\ roiOut = <<inPred1, inPred2, inGt1, inGt2>>

\* C8 witness: a call with identical boxes that are not the unit box has
\* returned.
C8_Witness ==
    /\ roipc = "returned" /\ box1 = box2
    /\ box1[2] - box1[1] > 1 /\ box1[1] > 0

\* what the four tensors the last call returned hold
RetContents == [i \in 1..4 |-> heap[rrRet[i]].data]

\* C18: roi_align_intersect is deterministic and stateless: two calls with
\* identical arguments return identical outputs, whatever calls were made in
\* between, and a call does not modify any of its six argument tensors.
C18_DeterministicAndPure ==
    /\ rrpc # "idle" => ArgContents(heap) = rrAtCall
    /\ rrpc = "returned" =>
          /\ \A i \in 1..4 : rrRet[i] \notin ArgObjs
          /\ rrAtCall = rrFirst.args => RetContents = rrFirst.out

\* C18 witness: a third call, with the arguments of the first and after a
\* call with other boxes, has returned resampled tensors; gt1 and gt2 had to
\* be converted.
C18_Witness ==
    /\ rrpc = "returned" /\ rrCalls = 3 /\ rrOther
    /\ rrAtCall = rrFirst.args
    /\ rrAtCall["box1"] # rrAtCall["box2"]
    /\ rrAtCall["gt1"].dtype = "int64"
    /\ RetContents = rrFirst.out
    /\ RetContents[1] # rrAtCall["pred1"].data

\* the fractional coordinates of the intersection inside the crop with box bv
\* lie in [0,1] on axis a
FractionsInUnit(bv, b1, b2, a) ==
    LET lo == bv[2 * a - 1]
        ext == bv[2 * a] - bv[2 * a - 1]
    IN  /\ 0 <= IntersectLo(b1, b2, a) - lo /\ IntersectLo(b1, b2, a) - lo <= ext
        /\ 0 <= IntersectHi(b1, b2, a) - lo /\ IntersectHi(b1, b2, a) - lo <= ext

RangeInGrid(rng, a) ==
    /\ 0 <= rng[2 * a - 1] /\ rng[2 * a - 1] <= rng[2 * a] /\ rng[2 * a] <= Grid[a]

\* C27: for every pair of boxes that overlap on all axes, the fractional
\* coordinates of the intersection inside each crop lie in [0,1] and the
\* integer index ranges satisfy 0 <= start <= end <= size on each axis for
\* both views.
C27_IndexRangeInGrid ==
    (RoiDone /\ Overlapping(box1, box2)) =>
        \A a \in 1..3 :
            /\ FractionsInUnit(box1, box1, box2, a)
            /\ FractionsInUnit(box2, box1, box2, a)
            /\ RangeInGrid(rng1, a) /\ RangeInGrid(rng2, a)

\* C27 witness: box 2 lies in the middle third of box 1 along x, and view 1's
\* index range is the middle voxel.
C27_Witness ==
    /\ roipc = "returned" /\ Overlapping(box1, box2)
    /\ box1[1] = 0 /\ box1[2] = 3 /\ box2[1] = 1 /\ box2[2] = 2
    /\ rng1[1] = 1 /\ rng1[2] = 2 /\ rng2[1] = 0 /\ rng2[2] = GridH

\* the voxel w lies inside the index range rng
InRange(w, rng) ==
    \A a \in 1..3 :
        /\ SliceStart(rng[2 * a - 1], rng[2 * a], Grid[a]) <= w[a]
        /\ w[a] < SliceStart(rng[2 * a - 1], rng[2 * a], Grid[a])
                    + SliceLen(rng[2 * a - 1], rng[2 * a], Grid[a])

\* every voxel of the output tensor out holds the K-vector of a voxel of the
\* input tensor t inside rng
GatheredFrom(out, t, rng) ==
    \A v \in Vox : \E w \in Vox : InRange(w, rng) /\ out[v] = t[w]

\* C30: whenever the extracted index range is non-empty, the K-vector at every
\* output voxel of a view equals the K-vector of some input voxel of the same
\* view lying inside the extracted index range.
C30_NoMixing ==
    roipc = "returned" =>
        /\ GatheredFrom(roiOut[1], inPred1, rng1)
        /\ GatheredFrom(roiOut[2], inPred2, rng2)
        /\ GatheredFrom(roiOut[3], inGt1, rng1)
        /\ GatheredFrom(roiOut[4], inGt2, rng2)

\* C30 witness: view 1's range is a single voxel along x, repeated over the
\* whole output.
C30_Witness ==
    /\ roipc = "returned" /\ rng1[1] = 2 /\ rng1[2] = 3
    /\ \A v \in Vox : roiOut[1][v] = <<"pred1", <<2, v[2], v[3]>>>>
    /\ roiOut[1] # inPred1

\* C9: when box1 fully contains box2 the intersection equals box2, the index
\* range of view 2 is the full extent and the aligned view-2 tensors equal
\* the original pred2 and gt2.
C9_ContainedBoxView2Unchanged ==
    (RoiDone /\ Contains(box1, box2)) =>
        /\ \A a \in 1..3 : /\ IntersectLo(box1, box2, a) = box2[2 * a - 1]
                           /\ IntersectHi(box1, box2, a) = box2[2 * a]
        /\ rng2 = FullRange
        /\ roipc = "returned"
        /\ roiOut[2] = inPred2 /\ roiOut[4] = inGt2


(***************************************************************************)
(* sinkhorn(args, Q, nmb_iters), tools.py, in float32 arithmetic, for the  *)
(* claims that speak of exact values.  The statements are those of the     *)
(* model above, with every division, product and sum rounded as the        *)
(* float32 tensors round it.  Q holds positive whole numbers when it is    *)
(* passed in.  torch.sum adds the elements in index order, which is the    *)
(* order of the CPU kernel for the sizes used here (up to four elements    *)
(* with distinct values); the sum of equal elements and the sum of whole   *)
(* numbers do not depend on the order.                                     *)
(***************************************************************************)
MaxUniformDim == 4 \* a uniform Q has K and B*N in 1..MaxUniformDim

\* a float32 value that is positive and finite is held as <<m, e>>, standing
\* for m * 2^e with 2^23 <= m < 2^24 (24 significant bits).  Each operation
\* rounds its exact result to the nearest such value, ties to the even one.

\* the float32 holding the whole number n, 0 < n < 2^24
F32Of(n) == <<n * Pow2[BinExp[n, 1, 0]], -BinExp[n, 1, 0]>>

\* q, or q + 1 when the part cut off (twiceRem / 2 out of den) is above one
\* half, or is one half and q is odd
Nearest(q, twiceRem, den) ==
    IF twiceRem > den \/ (twiceRem = den /\ q % 2 = 1) THEN q + 1 ELSE q

\* a mantissa that rounding carried up to 2^24 moves to the next exponent
F32Pack(m, e) == IF m = Pow2[24] THEN <<Pow2[23], e + 1>> ELSE <<m, e>>

\* long division: qr = <<quotient, remainder>> so far, extended by bits bits
DivStep(qr, d, bits) ==
    <<qr[1] * Pow2[bits] + (qr[2] * Pow2[bits]) \div d, (qr[2] * Pow2[bits]) % d>>

\* a / b
F32Div(a, b) ==
    LET k == IF a[1] >= b[1] THEN 23 ELSE 24
        s1 == DivStep(<<a[1] \div b[1], a[1] % b[1]>>, b[1], 7)
        s2 == DivStep(s1, b[1], 7)
        s3 == DivStep(s2, b[1], 7)
        s4 == DivStep(s3, b[1], k - 21)
    IN  F32Pack(Nearest(s4[1], 2 * s4[2], b[1]), a[2] - b[2] - k)

\* a * b, the 48-bit product of the mantissas taken in halves of 12 bits
F32Mul(a, b) ==
    LET ah == a[1] \div Pow2[12]
        al == a[1] % Pow2[12]
        bh == b[1] \div Pow2[12]
        bl == b[1] % Pow2[12]
        mid == ah * bl + al * bh
        t == al * bl + (mid % Pow2[12]) * Pow2[12]
        lo == t % Pow2[24]
        hi == ah * bh + mid \div Pow2[12] + t \div Pow2[24]
    IN  IF hi >= Pow2[23]
        THEN F32Pack(Nearest(hi, 2 * lo, Pow2[24]), a[2] + b[2] + 24)
        ELSE F32Pack(Nearest(2 * hi + lo \div Pow2[23], 2 * (lo % Pow2[23]), Pow2[23]),
                     a[2] + b[2] + 23)

\* s * 2^e, s >= 2^23, rounded to 24 bits; sticky tells that s itself was
\* cut off below its last bit
F32Normalize(s, e, sticky) ==
    LET j == DropBits[s, 0]
        q == s \div Pow2[j]
        rem == s % Pow2[j]
    IN  IF j = 0 THEN <<s, e>>
        ELSE F32Pack(IF 2 * rem > Pow2[j]
                        \/ (2 * rem = Pow2[j] /\ (sticky \/ q % 2 = 1))
                     THEN q + 1 ELSE q, e + j)

\* a + b
F32Add(a, b) ==
    LET x == IF a[2] >= b[2] THEN a ELSE b
        y == IF a[2] >= b[2] THEN b ELSE a
        d == x[2] - y[2]
    IN  IF d >= 27 THEN x
        ELSE IF d <= 3 THEN F32Normalize(x[1] * Pow2[d] + y[1], y[2], FALSE)
        ELSE F32Normalize(x[1] * 8 + y[1] \div Pow2[d - 3], x[2] - 3,
                          y[1] % Pow2[d - 3] # 0)

RECURSIVE F32SumSeq(_)
F32SumSeq(s) ==
    IF Len(s) = 1 THEN s[1] ELSE F32Add(F32SumSeq(SubSeq(s, 1, Len(s) - 1)), s[Len(s)])

\* torch.sum(m, dim=1)
F32RowSums(m) == [k \in 1..NRows(m) |-> F32SumSeq(m[k])]

\* torch.sum(m, dim=0)
F32ColSums(m) == [j \in 1..NCols(m) |-> F32SumSeq([k \in 1..NRows(m) |-> m[k][j]])]

\* torch.sum(m)
F32TotalSum(m) == F32SumSeq(Flat(m))

\* Q /= sum_Q
F32DivByTotal(m) ==
    LET s == F32TotalSum(m)
    IN  [k \in 1..NRows(m) |-> [j \in 1..NCols(m) |-> F32Div(m[k][j], s)]]

\* torch.ones(n) / n
F32Inverse(n) == F32Div(F32Of(1), F32Of(n))

\* Q *= (r / u).unsqueeze(1), r = ones(K) / K
F32ScaleRows(m, uu) ==
    LET r == F32Inverse(NRows(m))
    IN  [k \in 1..NRows(m) |-> [j \in 1..NCols(m) |-> F32Mul(m[k][j], F32Div(r, uu[k]))]]

\* Q *= (c / torch.sum(Q, dim=0)).unsqueeze(0), c = ones(B) / B
F32ScaleCols(m) ==
    LET c == F32Inverse(NCols(m))
        cs == F32ColSums(m)
    IN  [k \in 1..NRows(m) |-> [j \in 1..NCols(m) |-> F32Mul(m[k][j], F32Div(c, cs[j]))]]

\* variant of F32FinalAssign: the last normalisation taken over dim=1
F32FinalAssignRowNormalised(m) ==
    LET rs == F32RowSums(m)
    IN  Transpose([k \in 1..NRows(m) |-> [j \in 1..NCols(m) |-> F32Div(m[k][j], rs[k])]])

\* variant of F32FinalAssign: the normalised matrix returned without .t()
F32FinalAssignNoTranspose(m) ==
    LET cs == F32ColSums(m)
    IN  [k \in 1..NRows(m) |-> [j \in 1..NCols(m) |-> F32Div(m[k][j], cs[j])]]

\* (Q / torch.sum(Q, dim=0, keepdim=True)).t().float()
F32FinalAssign(m) ==
    LET cs == F32ColSums(m)
    IN  Transpose([k \in 1..NRows(m) |-> [j \in 1..NCols(m) |-> F32Div(m[k][j], cs[j])]])

\* the K x M matrix with v everywhere
UniformMatrix(k, m, v) == [i \in 1..k |-> [j \in 1..m |-> v]]

\* A call on a matrix of whole numbers from 1..MaxQ: any matrix of up to
\* MaxCells cells, or a uniform one with up to MaxUniformDim rows and columns.
FsInit ==
    /\ fspc = "call"
    /\ \/ \E km \in Shapes : fsQ0 \in [1..km[1] -> [1..km[2] -> 1..MaxQ]]
       \/ \E k \in 1..MaxUniformDim, m \in 1..MaxUniformDim, v \in 1..MaxQ :
             fsQ0 = UniformMatrix(k, m, v)
    /\ fsQ = [k \in 1..NRows(fsQ0) |-> [j \in 1..NCols(fsQ0) |-> F32Of(fsQ0[k][j])]]
    /\ fsNmbIters \in (1..MaxIters) \cup {TeacherIters}
    /\ fsIters = 0 /\ fsOut = <<>>

\* sum_Q = torch.sum(Q); Q /= sum_Q; u, r, c set up
F32SinkhornNormalize ==
    /\ fspc = "call"
    /\ fsQ' = F32DivByTotal(fsQ)
    /\ fspc' = "loop"
    /\ UNCHANGED <<fsQ0, fsNmbIters, fsIters, fsOut>>
    /\ UNCHANGED <<skVars, smVars, roiVars, lossVars, trVars, mtVars, epVars, axVars, rrVars>>

\* u = torch.sum(Q, dim=1); Q *= (r / u).unsqueeze(1)
F32SinkhornRowStep ==
    /\ fspc = "loop" /\ fsIters < fsNmbIters
    /\ fsQ' = F32ScaleRows(fsQ, F32RowSums(fsQ))
    /\ fspc' = "row"
    /\ UNCHANGED <<fsQ0, fsNmbIters, fsIters, fsOut>>
    /\ UNCHANGED <<skVars, smVars, roiVars, lossVars, trVars, mtVars, epVars, axVars, rrVars>>

\* Q *= (c / torch.sum(Q, dim=0)).unsqueeze(0)
F32SinkhornColStep ==
    /\ fspc = "row"
    /\ fsQ' = F32ScaleCols(fsQ)
    /\ fsIters' = fsIters + 1
    /\ fspc' = "loop"
    /\ UNCHANGED <<fsQ0, fsNmbIters, fsOut>>
    /\ UNCHANGED <<skVars, smVars, roiVars, lossVars, trVars, mtVars, epVars, axVars, rrVars>>

\* return (Q / torch.sum(Q, dim=0, keepdim=True)).t().float()
F32SinkhornReturn ==
    /\ fspc = "loop" /\ fsIters = fsNmbIters
    /\ fsOut' = F32FinalAssign(fsQ)
    /\ fspc' = "ret"
    /\ UNCHANGED <<fsQ, fsQ0, fsNmbIters, fsIters>>
    /\ UNCHANGED <<skVars, smVars, roiVars, lossVars, trVars, mtVars, epVars, axVars, rrVars>>

FsNext ==
    \/ F32SinkhornNormalize
    \/ F32SinkhornRowStep
    \/ F32SinkhornColStep
    \/ F32SinkhornReturn

InitSinkhornF32 ==
    /\ FsInit
    /\ SkIdle /\ SmIdle /\ RoiIdle /\ LossIdle /\ TrIdle /\ MtIdle /\ EpIdle
    /\ AxIdle /\ RrIdle

SpecSinkhornF32 == InitSinkhornF32 /\ [][FsNext]_vars

(***************************************************************************)
(* Claims about the exact values sinkhorn returns.                         *)
(***************************************************************************)
\* Q was passed in with all entries equal
UniformInput == AllEqualTo(fsQ0, fsQ0[1][1])

\* the float32 values a and b are equal or next to each other
WithinOneUlp(a, b) ==
    \/ a[2] = b[2] /\ a[1] - b[1] \in {-1, 0, 1}
    \/ a = <<Pow2[23], b[2] + 1>> /\ b[1] = Pow2[24] - 1
    \/ b = <<Pow2[23], a[2] + 1>> /\ a[1] = Pow2[24] - 1

IsRatio(a, n, d) ==
    IF a[2] >= 0 THEN a[1] * Pow2[a[2]] * d = n
    ELSE -a[2] <= 27 /\ a[1] * d = n * Pow2[-a[2]]

\* torch.sum(out, dim=0) of the returned assignment: the mass of each of the
\* K clusters, every one of them (B*N)/K
Balanced ==
    \A k \in 1..NRows(fsQ0) : IsRatio(F32ColSums(fsOut)[k], NCols(fsQ0), NRows(fsQ0))

MaxElems == 3      \* the tensors of a ce_loss call have 1..MaxElems elements
MaxSwavElems == 2  \* the tensors of a swav_loss call have 1..MaxSwavElems

GtVals == {Zero, R(1, 2), One, NaN}
OutVals == {Zero, R(1, 4), R(1, 2), One}

SwavGtVals == {Zero, R(1, 2), One}
SwavOutVals == {R(1, 2), One}

\* torch.log(x); log(1/2), log(1/4) and log(2) to four decimal places
LogF(x) ==
    CASE x = NaN -> NaN
      [] x = PosInf -> PosInf
      [] x = Zero -> NegInf
      [] x = One -> Zero
      [] x = R(1, 2) -> R(-6931, 10000)
      [] x = R(1, 4) -> R(-13863, 10000)
      [] x = R(2, 1) -> R(6931, 10000)
      [] x[1] < 0 -> NaN

\* torch.mean(t)
Mean(t) == FDiv(FSumSeq(t), R(Len(t), 1))

\* variant of ce_loss: the prediction's zeros are replaced by 1 before the log
ce_loss_clamped(g, o) ==
    FNeg(Mean([i \in 1..Len(g) |->
                  FMul(g[i], LogF(IF o[i] = Zero THEN One ELSE o[i]))]))

\* loss = - torch.mean(gt * torch.log(out))
ce_loss(g, o) == FNeg(Mean([i \in 1..Len(g) |-> FMul(g[i], LogF(o[i]))]))

\* variant of swav_loss: each view's prediction scored against its own target
swav_loss_own(g1, g2, o1, o2) ==
    FMul(R(1, 2), FAdd(ce_loss(g1, o1), ce_loss(g2, o2)))

\* loss1 = ce_loss(gt1,out2); loss2 = ce_loss(gt2,out1); loss = 0.5 * (loss1 + loss2)
swav_loss(g1, g2, o1, o2) ==
    FMul(R(1, 2), FAdd(ce_loss(g1, o2), ce_loss(g2, o1)))

LossInit ==
    /\ losspc = "call"
    /\ \/ /\ lossFn = "ce_loss"
          /\ \E n \in 1..MaxElems :
                /\ lossGt \in [1..n -> GtVals]
                /\ lossOut \in [1..n -> OutVals]
          /\ lossGt2 = <<>> /\ lossOut2 = <<>>
       \/ /\ lossFn = "swav_loss"
          /\ \E n \in 1..MaxSwavElems :
                /\ lossGt \in [1..n -> SwavGtVals]
                /\ lossOut \in [1..n -> SwavOutVals]
                /\ lossGt2 \in [1..n -> SwavGtVals]
                /\ lossOut2 \in [1..n -> SwavOutVals]
    /\ lossRes = <<>>

CeLoss ==
    /\ losspc = "call" /\ lossFn = "ce_loss"
    /\ lossRes' = ce_loss(lossGt, lossOut)
    /\ losspc' = "returned"
    /\ UNCHANGED <<lossFn, lossGt, lossOut, lossGt2, lossOut2>>
    /\ UNCHANGED <<skVars, smVars, roiVars, trVars, mtVars, epVars, axVars, fsVars, rrVars>>

SwavLoss ==
    /\ losspc = "call" /\ lossFn = "swav_loss"
    /\ lossRes' = swav_loss(lossGt, lossGt2, lossOut, lossOut2)
    /\ losspc' = "returned"
    /\ UNCHANGED <<lossFn, lossGt, lossOut, lossGt2, lossOut2>>
    /\ UNCHANGED <<skVars, smVars, roiVars, trVars, mtVars, epVars, axVars, fsVars, rrVars>>

LossNext ==
    \/ CeLoss
    \/ SwavLoss

InitLoss == LossInit /\ SkIdle /\ SmIdle /\ RoiIdle /\ TrIdle /\ MtIdle /\ EpIdle /\ AxIdle /\ FsIdle /\ RrIdle

SpecLoss == InitLoss /\ [][LossNext]_vars

IsFinite(x) == x[2] # 0

\* a one-hot vector over K >= 2 classes
OneHot(g) ==
    /\ Len(g) >= 2
    /\ \E k \in 1..Len(g) : \A i \in 1..Len(g) : g[i] = (IF i = k THEN One ELSE Zero)

\* C10: ce_loss with a one-hot gt (K >= 2) and pred exactly equal to gt
\* yields loss 0.
C10_OneHotPerfectPredictionZero ==
    (losspc = "returned" /\ lossFn = "ce_loss" /\ OneHot(lossGt) /\ lossOut = lossGt) =>
        lossRes = Zero

\* C11: ce_loss returns a non-finite value (infinite or NaN) instead of
\* raising whenever pred has an exact zero at a position where gt is nonzero;
\* it returns a finite value whenever pred is strictly positive everywhere and
\* gt is finite.
C11_NonFiniteIffZeroUnderTarget ==
    (losspc = "returned" /\ lossFn = "ce_loss") =>
        /\ (\E i \in 1..Len(lossGt) : lossOut[i] = Zero /\ lossGt[i] # Zero)
              => ~IsFinite(lossRes)
        /\ ((\A i \in 1..Len(lossGt) : FGt(lossOut[i], Zero) /\ IsFinite(lossGt[i]))
              => IsFinite(lossRes))

\* C11 witness: a call whose pred is zero under a positive gt, next to a
\* position with a positive pred, has returned +inf.
C11_Witness ==
    /\ losspc = "returned" /\ lossFn = "ce_loss" /\ Len(lossGt) = 2
    /\ lossOut[1] = Zero /\ lossGt[1] = R(1, 2)
    /\ lossOut[2] = R(1, 2) /\ lossGt[2] = R(1, 2)
    /\ lossRes = PosInf

\* C12: swav_loss(gt1, gt2, pred1, pred2) equals
\* 0.5 * (ce_loss(gt2, pred1) + ce_loss(gt1, pred2)): each view's prediction
\* is scored against the other view's target, and exchanging the two views
\* gives the same value.
C12_SwappedAndSymmetric ==
    (losspc = "returned" /\ lossFn = "swav_loss") =>
        /\ lossRes = FMul(R(1, 2), FAdd(ce_loss(lossGt2, lossOut),
                                        ce_loss(lossGt, lossOut2)))
        /\ swav_loss(lossGt2, lossGt, lossOut2, lossOut) = lossRes

\* C12 witness: a returned swav_loss whose value differs from the one got by
\* scoring each prediction against its own target.
C12_Witness ==
    /\ losspc = "returned" /\ lossFn = "swav_loss"
    /\ lossGt # lossGt2 /\ lossOut # lossOut2
    /\ IsFinite(lossRes) /\ lossRes # Zero
    /\ lossRes # FMul(R(1, 2), FAdd(ce_loss(lossGt, lossOut),
                                    ce_loss(lossGt2, lossOut2)))


(***************************************************************************)
(* One call of train_pcrlv2_inner, train_cluster_inner or                  *)
(* train_cluster_patch_inner, train_3d.py: the loop over the batches of    *)
(* train_loader.  The network, the optimizer, the criterion, the cosine    *)
(* similarity and the data are outside this repository: the clustering     *)
(* loss of a batch is any of LossValues, the criterion and cosine values   *)
(* of a batch are any of PcrlInputs, and whether roi_align_intersect       *)
(* returns or raises depends on the batch's boxes.  The timing meters and  *)
(* the tensorboard block are left out.                                     *)
(***************************************************************************)
MaxEpoch == 12     \* the epoch argument is drawn from 0..MaxEpoch
MaxBatches == 2    \* len(train_loader) is drawn from 0..MaxBatches
MaxBsz == 2        \* the batch size B is drawn from 1..MaxBsz

\* if loss > 1000 and epoch > 10:
LossThreshold == 1000
WarmupEpochs == 10

LossValues == {R(1, 2), R(LossThreshold, 1), R(LossThreshold + 1, 1), NaN}

\* train_pcrlv2_inner: what criterion(mask1, gt1) returns for a batch
CriterionValues == {R(1, 4), R(LossThreshold, 1), R(2 * LossThreshold, 1), NaN}

\* train_pcrlv2_inner: what criterion(middle_masks1[index2], gt1) and the
\* mean of the cosine similarity return for a batch
PcrlInputs ==
    CriterionValues \X {<<Zero, Zero>>, <<R(1, 4), R(-1, 2)>>}

\* local_views holds 6 crops per sample
NumLocalViews == 6

\* cos_loss: -(cosine(...).mean() + cosine(...).mean()) * 0.5
cos_loss(mean1, mean2) == FMul(FNeg(FAdd(mean1, mean2)), R(1, 2))

\* local_loss after i rounds of
\*     local_loss += loss_local_1; local_loss += loss_local_2
LocalLossSum[i \in Nat, l1 \in Floats, l2 \in Floats] ==
    IF i = 0 THEN Zero ELSE FAdd(FAdd(LocalLossSum[i - 1, l1, l2], l1), l2)

\* local_loss = local_loss / (2 * len(local_views))
LocalLoss(l1, l2, n) == FDiv(LocalLossSum[n, l1, l2], R(2 * n, 1))

\* 10000 * 0.5 * (1. + math.cos(math.pi * epoch / 240)) for the epochs
\* 0, 1, ..., to four decimals
BetaTable ==
    <<10000, 10000, 9998, 9996, 9993, 9989, 9985, 9979, 9973, 9965, 9957, 9948,
      9938, 9928, 9916, 9904, 9891>>

\* beta = 0.5 * (1. + math.cos(math.pi * epoch / 240))
Beta(e) == R(BetaTable[e + 1], 10000)

\* loss = loss1 + loss2 + loss4 + local_loss, with loss4 = beta * criterion(...)
PcrlLoss(loss1, loss2, mid, local, e) ==
    FAdd(FAdd(FAdd(loss1, loss2), FMul(Beta(e), mid)), local)

\* what the four meter updates of a batch are given: loss1, loss2,
\* local_loss and loss
MeterTerms(l1, l2, local, total) ==
    [loss1 |-> l1, loss2 |-> l2, local_loss |-> local, loss |-> total]

\* AverageMeter.__init__ / reset
MeterNew == [val |-> Zero, avg |-> Zero, sum |-> Zero, count |-> 0]

\* variant of MeterUpdate: the value folded in without its weight n
MeterUpdateUnweighted(m, v, n) ==
    LET sm == FAdd(m.sum, v)
        ct == m.count + n
    IN  [val |-> v, avg |-> FDiv(sm, R(ct, 1)), sum |-> sm, count |-> ct]

\* AverageMeter.update(val, n)
MeterUpdate(m, v, n) ==
    LET sm == FAdd(m.sum, FMul(v, R(n, 1)))
        ct == m.count + n
    IN  [val |-> v, avg |-> FDiv(sm, R(ct, 1)), sum |-> sm, count |-> ct]

(***************************************************************************)
(* An AverageMeter, tools.py, under any sequence of reset() and            *)
(* update(val, n) calls.  The division self.sum / self.count of Python     *)
(* numbers raises ZeroDivisionError when count is 0, after val, sum and    *)
(* count have been assigned.                                               *)
(***************************************************************************)
MaxN == 2          \* the weight n of an update is drawn from 0..MaxN
MaxOps == 4        \* calls made on the meter after its construction

MeterVals == {R(1, 2), R(3, 1), NaN}

MtInit == mt = MeterNew /\ mtHist = <<>> /\ mtLast = "init" /\ mtOps = 0

\* reset()
MeterReset ==
    /\ mtLast # "idle" /\ mtOps < MaxOps
    /\ mt' = MeterNew
    /\ mtHist' = <<>>
    /\ mtLast' = "reset"
    /\ mtOps' = mtOps + 1
    /\ UNCHANGED <<skVars, smVars, roiVars, lossVars, trVars, epVars, axVars, fsVars, rrVars>>

\* update(val, n)
MeterUpdateCall ==
    /\ mtLast # "idle" /\ mtOps < MaxOps
    /\ \E v \in MeterVals : \E n \in 0..MaxN :
          /\ mtHist' = Append(mtHist, <<v, n>>)
          /\ IF mt.count + n = 0
             THEN /\ mt' = [mt EXCEPT !.val = v,
                                      !.sum = FAdd(mt.sum, FMul(v, R(n, 1)))]
                  /\ mtLast' = "raised"
             ELSE /\ mt' = MeterUpdate(mt, v, n)
                  /\ mtLast' = "update"
    /\ mtOps' = mtOps + 1
    /\ UNCHANGED <<skVars, smVars, roiVars, lossVars, trVars, epVars, axVars, fsVars, rrVars>>

MtNext ==
    \/ MeterReset
    \/ MeterUpdateCall

InitMeter == MtInit /\ SkIdle /\ SmIdle /\ RoiIdle /\ LossIdle /\ TrIdle /\ EpIdle /\ AxIdle /\ FsIdle /\ RrIdle

SpecMeter == InitMeter /\ [][MtNext]_vars

\* the sum of the n's of the updates h
RECURSIVE HistCount(_)
HistCount(h) == IF h = <<>> THEN 0 ELSE HistCount(SubSeq(h, 1, Len(h) - 1)) + h[Len(h)][2]

\* the sum of val * n over the updates h, in call order
RECURSIVE HistSum(_)
HistSum(h) ==
    IF h = <<>> THEN Zero
    ELSE FAdd(HistSum(SubSeq(h, 1, Len(h) - 1)), FMul(h[Len(h)][1], R(h[Len(h)][2], 1)))

\* C15: after any sequence of reset() and update(val, n) calls with at least
\* one update with n > 0 since the last reset, count is the sum of the n's
\* since the last reset, sum is the sum of val*n since the last reset, avg is
\* sum/count and val is the last value passed; immediately after reset() all
\* four fields are 0, as in a freshly constructed meter.
C15_MeterInvariant ==
    /\ (mtLast # "idle" /\ \E i \in 1..Len(mtHist) : mtHist[i][2] > 0) =>
          /\ mt.count = HistCount(mtHist)
          /\ mt.sum = HistSum(mtHist)
          /\ mt.avg = FDiv(mt.sum, R(mt.count, 1))
          /\ mt.val = mtHist[Len(mtHist)][1]
    /\ mtLast \in {"init", "reset"} =>
          /\ mt.val = Zero /\ mt.avg = Zero /\ mt.sum = Zero /\ mt.count = 0

\* C15 witness: after a reset that followed earlier updates, two updates with
\* different values and weights have been folded in.
C15_Witness ==
    /\ mtLast = "update" /\ mtOps = 4 /\ Len(mtHist) = 2
    /\ mtHist = <<<<R(3, 1), 2>>, <<R(1, 2), 1>>>>
    /\ mt = [val |-> R(1, 2), avg |-> R(13, 6), sum |-> R(13, 2), count |-> 3]

\* variant of GuardSkips: the warm-up taken one epoch longer
GuardSkipsOneEpochLate(l, e) == FGt(l, R(LossThreshold, 1)) /\ e > WarmupEpochs + 1

\* variant of GuardSkips: both comparisons taken inclusive
GuardSkipsInclusive(l, e) == FGt(l, R(LossThreshold - 1, 1)) /\ e >= WarmupEpochs

\* the guard of the batch loop: loss > 1000 and epoch > 10
GuardSkips(l, e) == FGt(l, R(LossThreshold, 1)) /\ e > WarmupEpochs

Called(name) == \E i \in 1..Len(calls) : calls[i] = name

\* variant of RunsSecondView: crop 2 processed in every mode
RunsSecondViewAlways(f, cl) == TRUE

\* crop 2 is run through the model and aligned with crop 1:
\* `if args.cluster_loss == 'swav':` in train_cluster_inner, always in
\* train_cluster_patch_inner
RunsSecondView(f, cl) == f = "cluster_patch" \/ cl = "swav"

\* The tensor storages of the teacher-target step.  A storage holds a term
\* that says how its content was computed; an in-place operation replaces
\* the content of the storage it is applied to.
StoreNames ==
    {"prototypes.weight", "emb1", "emb2", "proto", "cos_sim1", "cos_sim2",
     "exp1", "exp2"}

StoreNew ==
    [n \in StoreNames |->
        IF n = "prototypes.weight" THEN <<"weights", 0>> ELSE <<"unset">>]

\* variant of ExpStorage: the exponential taken in place, in the storage that
\* flat_cos_sim shares with cos_sim
ExpStorageInPlace(view) == view

\* flat_cos_sim = torch.exp(flat_cos_sim / eps) makes a new tensor, where
\* flat_cos_sim = cos_sim.reshape(B*N,K).T was a view of cos_sim
ExpStorage(view) == IF view = "cos_sim1" THEN "exp1" ELSE "exp2"

\* emb1, pred1 = model(x1); emb2, pred2 = model(x2); emb = normalize(emb)
ForwardStore(st, i) ==
    [st EXCEPT !["emb1"] = <<"emb", 1, i>>, !["emb2"] = <<"emb", 2, i>>]

\* the no_grad block: proto = weight.data.clone(), normalize, matmul, the
\* exp of the flattened view, sinkhorn rescaling its argument in place
TeacherStore(st) ==
    LET proto == <<"normalize", st["prototypes.weight"]>>
        c1 == <<"matmul", st["emb1"], proto>>
        c2 == <<"matmul", st["emb2"], proto>>
        st1 == [st EXCEPT !["proto"] = proto, !["cos_sim1"] = c1, !["cos_sim2"] = c2]
        st2 == [st1 EXCEPT ![ExpStorage("cos_sim1")] = <<"sinkhorn", <<"exp", c1>>>>]
    IN  [st2 EXCEPT ![ExpStorage("cos_sim2")] = <<"sinkhorn", <<"exp", c2>>>>]

\* variant of NextAfterGuard: the loop left at a discarded batch
NextAfterGuardBreak(skip) == IF skip THEN "done" ELSE "zero_grad"

\* variant of NextAfterGuard: a discarded batch still recorded in the meters
NextAfterGuardToMeters(skip) == IF skip THEN "meters" ELSE "zero_grad"

\* variant of NextAfterGuard: the gradients not cleared before backward
NextAfterGuardNoZeroGrad(skip) == IF skip THEN "fetch" ELSE "backward"

\* where the loop body goes after the guard: `continue`, or on to zero_grad
NextAfterGuard(skip) == IF skip THEN "fetch" ELSE "zero_grad"

TrInit ==
    /\ trpc = "fetch"
    /\ fn \in {"pcrlv2", "cluster", "cluster_patch"}
    /\ clusterLoss \in {"ce", "swav"}
    /\ epoch \in 0..MaxEpoch
    /\ nBatches \in 0..MaxBatches
    /\ bsz \in 1..MaxBsz
    /\ idx = 0 /\ loss = <<>> /\ parts = <<>> /\ params = 0 /\ paramsAtBatch = 0
    /\ calls = <<>> /\ skipped = 0 /\ ret = <<>>
    /\ applied = <<>> /\ store = StoreNew
    /\ meters = [mg_loss_meter |-> MeterNew, loss_meter |-> MeterNew,
                 prob_meter |-> MeterNew, total_loss_meter |-> MeterNew]

TrFrame == UNCHANGED <<skVars, smVars, roiVars, lossVars, mtVars, epVars, axVars, fsVars, rrVars>>

\* for idx, (...) in enumerate(train_loader): the next batch
FetchBatch ==
    /\ trpc = "fetch" /\ idx < nBatches
    /\ idx' = idx + 1
    /\ calls' = <<>>
    /\ paramsAtBatch' = params
    /\ trpc' = "forward"
    /\ UNCHANGED <<applied, store, fn, clusterLoss, epoch, nBatches, bsz, loss, parts, params, meters,
                   skipped, ret>>
    /\ TrFrame

\* the model is run on crop 1, and on crop 2 unless train_cluster_inner is in
\* 'ce' mode (train_pcrlv2_inner does not read args.cluster_loss)
Forward ==
    /\ trpc = "forward"
    /\ calls' = IF fn = "pcrlv2" \/ RunsSecondView(fn, clusterLoss)
                THEN calls \o <<"forward1", "forward2">>
                ELSE calls \o <<"forward1">>
    /\ trpc' = IF fn = "pcrlv2" THEN "local"
               ELSE IF fn = "cluster_patch" THEN "teacher"
               ELSE IF RunsSecondView(fn, clusterLoss) THEN "align"
               ELSE "loss"
    /\ store' = IF fn = "cluster_patch" THEN ForwardStore(store, idx) ELSE store
    /\ UNCHANGED <<applied, fn, clusterLoss, epoch, nBatches, idx, bsz, loss, parts, params,
                   paramsAtBatch, meters, skipped, ret>>
    /\ TrFrame

\* train_pcrlv2_inner: loss2, index2 = cos_loss(cosine, decoder_outputs1,
\* decoder_outputs2); _, local_views_outputs, _ = model(local_input, local=True)
LocalViews ==
    /\ trpc = "local"
    /\ calls' = calls \o <<"cos_loss(cosine, decoder_outputs1, decoder_outputs2)",
                            "forward(local)">>
    /\ trpc' = "loss"
    /\ UNCHANGED <<applied, store, fn, clusterLoss, epoch, nBatches, idx, bsz, loss, parts,
                   params, paramsAtBatch, meters, skipped, ret>>
    /\ TrFrame

\* with torch.no_grad(): ... gt1 = sinkhorn(...), gt2 = sinkhorn(...)
TeacherTargets ==
    /\ trpc = "teacher"
    /\ calls' = calls \o <<"sinkhorn", "sinkhorn">>
    /\ store' = TeacherStore(store)
    /\ trpc' = "align"
    /\ UNCHANGED <<applied, fn, clusterLoss, epoch, nBatches, idx, bsz, loss, parts, params,
                   paramsAtBatch, meters, skipped, ret>>
    /\ TrFrame

\* roi_pred1, ... = roi_align_intersect(pred1, pred2, gt1, gt2, crop1_coords, crop2_coords)
Align ==
    /\ trpc = "align"
    /\ calls' = calls \o <<"roi_align_intersect">>
    /\ \/ trpc' = "loss"
       \/ trpc' = "raised"
    /\ UNCHANGED <<applied, store, fn, clusterLoss, epoch, nBatches, idx, bsz, loss, parts, params,
                   paramsAtBatch, meters, skipped, ret>>
    /\ TrFrame

\* cluster_loss = ce_loss(gt1, pred1) or swav_loss(roi_gt1, roi_gt2, roi_pred1, roi_pred2);
\* loss = loss1 = cluster_loss
ComputeLoss ==
    /\ trpc = "loss" /\ fn # "pcrlv2"
    /\ loss' \in LossValues
    /\ parts' = MeterTerms(loss', Zero, Zero, loss')
    /\ calls' = calls \o <<IF fn = "cluster" /\ clusterLoss = "ce"
                           THEN "ce_loss(gt1, pred1)"
                           ELSE "swav_loss(roi_gt1, roi_gt2, roi_pred1, roi_pred2)">>
    /\ trpc' = "guard"
    /\ UNCHANGED <<applied, store, fn, clusterLoss, epoch, nBatches, idx, bsz, params,
                   paramsAtBatch, meters, skipped, ret>>
    /\ TrFrame

\* train_pcrlv2_inner: the local cosine losses, loss1 = criterion(mask1, gt1),
\* loss4 = beta * criterion(middle_masks1[index2], gt1),
\* loss = loss1 + loss2 + loss4 + local_loss
ComputePcrlLoss ==
    /\ trpc = "loss" /\ fn = "pcrlv2"
    /\ \E inp \in PcrlInputs :
          LET loss1 == inp[1]
              loss2 == cos_loss(inp[2][2], inp[2][2])
              local == LocalLoss(cos_loss(inp[2][2], inp[2][2]),
                                 cos_loss(inp[2][2], inp[2][2]), NumLocalViews)
              total == PcrlLoss(loss1, loss2, inp[2][1], local, epoch)
          IN  /\ loss' = total
              /\ parts' = MeterTerms(loss1, loss2, local, total)
    /\ calls' = calls \o <<"cos_loss(local)", "criterion(mask1, gt1)",
                            "criterion(middle_masks1[index2], gt1)">>
    /\ trpc' = "guard"
    /\ UNCHANGED <<applied, store, fn, clusterLoss, epoch, nBatches, idx, bsz, params,
                   paramsAtBatch, meters, skipped, ret>>
    /\ TrFrame

\* if loss > 1000 and epoch > 10: print('skip the step'); continue
Guard ==
    /\ trpc = "guard"
    /\ IF GuardSkips(loss, epoch)
       THEN skipped' = skipped + 1
       ELSE skipped' = skipped
    /\ trpc' = NextAfterGuard(GuardSkips(loss, epoch))
    /\ UNCHANGED <<applied, store, fn, clusterLoss, epoch, nBatches, idx, bsz, loss, parts, params,
                   paramsAtBatch, calls, meters, ret>>
    /\ TrFrame

\* optimizer.zero_grad()
ZeroGrad ==
    /\ trpc = "zero_grad"
    /\ calls' = calls \o <<"zero_grad">>
    /\ trpc' = "backward"
    /\ UNCHANGED <<applied, store, fn, clusterLoss, epoch, nBatches, idx, bsz, loss, parts, params,
                   paramsAtBatch, meters, skipped, ret>>
    /\ TrFrame

\* loss.backward()
Backward ==
    /\ trpc = "backward"
    /\ calls' = calls \o <<"backward">>
    /\ trpc' = "step"
    /\ UNCHANGED <<applied, store, fn, clusterLoss, epoch, nBatches, idx, bsz, loss, parts, params,
                   paramsAtBatch, meters, skipped, ret>>
    /\ TrFrame

\* optimizer.step()
OptimizerStep ==
    /\ trpc = "step"
    /\ calls' = calls \o <<"step">>
    /\ params' = params + 1
    /\ store' = [store EXCEPT !["prototypes.weight"] = <<"weights", params + 1>>]
    /\ trpc' = "meters"
    /\ UNCHANGED <<applied, fn, clusterLoss, epoch, nBatches, idx, bsz, loss, parts,
                   paramsAtBatch, meters, skipped, ret>>
    /\ TrFrame

\* mg_loss_meter.update(loss1.item(), B); loss_meter.update(loss2.item(), B)
\* prob_meter.update(local_loss, B); total_loss_meter.update(loss, B)
\* (in the two clustering functions loss1 = loss, loss2 = torch.tensor(0)
\* and local_loss = 0)
UpdateMeters ==
    /\ trpc = "meters"
    /\ meters' = [mg_loss_meter |-> MeterUpdate(meters.mg_loss_meter, parts.loss1, bsz),
                  loss_meter |-> MeterUpdate(meters.loss_meter, parts.loss2, bsz),
                  prob_meter |-> MeterUpdate(meters.prob_meter, parts.local_loss, bsz),
                  total_loss_meter |-> MeterUpdate(meters.total_loss_meter, parts.loss, bsz)]
    /\ calls' = calls \o <<"meters">>
    /\ applied' = Append(applied, parts)
    /\ trpc' = "fetch"
    /\ UNCHANGED <<store, fn, clusterLoss, epoch, nBatches, idx, bsz, loss, parts, params,
                   paramsAtBatch, skipped, ret>>
    /\ TrFrame

\* return mg_loss_meter.avg, prob_meter.avg, total_loss_meter.avg, writer
ReturnAverages ==
    /\ trpc = "fetch" /\ idx = nBatches
    /\ ret' = <<meters.mg_loss_meter.avg, meters.prob_meter.avg,
                meters.total_loss_meter.avg>>
    /\ trpc' = "done"
    /\ UNCHANGED <<applied, store, fn, clusterLoss, epoch, nBatches, idx, bsz, loss, parts, params,
                   paramsAtBatch, calls, meters, skipped>>
    /\ TrFrame

TrNext ==
    \/ FetchBatch
    \/ Forward
    \/ LocalViews
    \/ TeacherTargets
    \/ Align
    \/ ComputeLoss
    \/ ComputePcrlLoss
    \/ Guard
    \/ ZeroGrad
    \/ Backward
    \/ OptimizerStep
    \/ UpdateMeters
    \/ ReturnAverages

InitTrain == TrInit /\ SkIdle /\ SmIdle /\ RoiIdle /\ LossIdle /\ MtIdle /\ EpIdle /\ AxIdle /\ FsIdle /\ RrIdle

SpecTrain == InitTrain /\ [][TrNext]_vars

\* The loop body is straight-line code: a statement that can run does run.
SpecTrainFair == InitTrain /\ [][TrNext]_vars /\ WF_vars(TrNext)

\* the loss of the batch last fetched has been computed
LossComputed ==
    \/ Called("criterion(mask1, gt1)")
    \/ Called("ce_loss(gt1, pred1)")
    \/ Called("swav_loss(roi_gt1, roi_gt2, roi_pred1, roi_pred2)")

\* the batch last fetched has been dealt with: the loop is back at its head
BatchFinished == LossComputed /\ trpc \in {"fetch", "done"}

Stepped ==
    /\ Called("zero_grad") /\ Called("backward") /\ Called("step")
    /\ params = paramsAtBatch + 1

\* C1: for every batch processed at an epoch > 10 whose scalar loss is > 1000,
\* neither optimizer.zero_grad, loss.backward nor optimizer.step is invoked
\* for that batch, and the parameters after the batch equal those before it.
C1_LossGuardSkipsStep ==
    (LossComputed /\ epoch > WarmupEpochs /\ FGt(loss, R(LossThreshold, 1))) =>
        /\ ~Called("zero_grad") /\ ~Called("backward") /\ ~Called("step")
        /\ params = paramsAtBatch
        /\ trpc \in {"guard", "fetch", "done"}

\* C1 witness: the second batch of an epoch > 10 had a loss above the
\* threshold, after a first batch that was stepped, and the loop has moved on.
C1_Witness ==
    /\ LossComputed /\ epoch > WarmupEpochs /\ FGt(loss, R(LossThreshold, 1))
    /\ trpc = "done" /\ idx = 2 /\ params = 1 /\ skipped = 1

\* C17: in train_cluster_inner, roi_align_intersect is invoked on a batch if
\* and only if cluster_loss == 'swav'; in 'ce' mode alignment is skipped, the
\* model is run on view 1 only, and the loss is ce_loss of view 1's prediction
\* against view 1's own one-hot target.
C17_AlignOnlyInSwavMode ==
    fn = "cluster" =>
        /\ Called("roi_align_intersect") => clusterLoss = "swav"
        /\ (clusterLoss = "swav" /\ (LossComputed \/ trpc = "raised"))
              => Called("roi_align_intersect")
        /\ (clusterLoss = "ce" /\ LossComputed) =>
              /\ calls[1] = "forward1" /\ ~Called("forward2")
              /\ calls[2] = "ce_loss(gt1, pred1)"
              /\ ~Called("swav_loss(roi_gt1, roi_gt2, roi_pred1, roi_pred2)")

\* C17 witness: train_cluster_inner in 'ce' mode has processed two batches.
C17_Witness ==
    /\ fn = "cluster" /\ clusterLoss = "ce" /\ trpc = "done" /\ idx = 2
    /\ Called("ce_loss(gt1, pred1)") /\ Called("step")

\* C19: the loss guard skips nothing else: a batch whose loss is a number
\* <= 1000 (at any epoch), or which is processed at an epoch <= 10 (whatever
\* its loss), always goes through zero_grad, backward and optimizer.step; the
\* boundary values loss == 1000 and epoch == 10 are not skipped.
C19_GuardSkipsNothingElse ==
    (LossComputed /\ ((~IsNaN(loss) /\ ~FGt(loss, R(LossThreshold, 1)))
                        \/ epoch <= WarmupEpochs)) =>
        /\ trpc \in {"guard", "zero_grad", "backward", "step", "meters", "fetch", "done"}
        /\ trpc \in {"backward", "step", "meters", "fetch", "done"} => Called("zero_grad")
        /\ trpc \in {"step", "meters", "fetch", "done"} => Called("backward")
        /\ trpc \in {"meters", "fetch", "done"} => Stepped

\* C19 witness: at epoch 10 a batch with loss 1001 has been stepped.
C19_Witness ==
    /\ BatchFinished /\ epoch = WarmupEpochs
    /\ loss = R(LossThreshold + 1, 1) /\ Stepped

\* C20: a NaN loss is never discarded by the guard on the batch that produced
\* it: loss > 1000 is false at every epoch, so zero_grad, backward and
\* optimizer.step run for that batch and the NaN is folded into the loss
\* meters.
C20_NaNLossIsStepped ==
    (BatchFinished /\ IsNaN(loss)) =>
        /\ Stepped
        /\ Called("meters")
        /\ IsNaN(meters.total_loss_meter.sum) /\ IsNaN(meters.total_loss_meter.avg)
        /\ fn \in {"cluster", "cluster_patch"} =>
              IsNaN(meters.mg_loss_meter.sum) /\ IsNaN(meters.mg_loss_meter.avg)

\* C20 witness: at an epoch > 10 a batch with a NaN loss has been stepped and
\* the averages returned.
C20_Witness ==
    /\ fn = "cluster_patch"
    /\ trpc = "done" /\ LossComputed /\ IsNaN(loss) /\ epoch > WarmupEpochs
    /\ Stepped /\ ret[1] = NaN /\ ret[3] = NaN

\* the phases of one batch of train_cluster_patch_inner, in order
PatchPhases ==
    <<"forward1", "forward2", "sinkhorn", "sinkhorn", "roi_align_intersect",
      "swav_loss(roi_gt1, roi_gt2, roi_pred1, roi_pred2)",
      "zero_grad", "backward", "step", "meters">>

IsPrefix(a, b) == Len(a) <= Len(b) /\ a = SubSeq(b, 1, Len(a))

\* C21: in train_cluster_patch_inner, for every batch that is not skipped the
\* phases occur exactly once each in the order forward (both views),
\* teacher-target, align, loss, zero_grad, backward, optimizer.step, meter
\* updates; optimizer.step is never invoked without a preceding zero_grad and
\* backward of the same batch's loss.
C21_PatchPhaseOrder ==
    fn = "cluster_patch" =>
        /\ IsPrefix(calls, PatchPhases)
        /\ (BatchFinished /\ ~GuardSkips(loss, epoch)) => calls = PatchPhases
        /\ \A i \in 1..Len(calls) :
              calls[i] = "step" =>
                  /\ i >= 3 /\ calls[i - 2] = "zero_grad" /\ calls[i - 1] = "backward"
                  /\ \E j \in 1..(i - 3) : calls[j] = PatchPhases[6]

\* C21 witness: after a skipped batch, a second batch of
\* train_cluster_patch_inner went through all its phases.
C21_Witness ==
    /\ fn = "cluster_patch" /\ trpc = "done" /\ idx = 2 /\ skipped = 1
    /\ calls = PatchPhases

\* C22: a skipped batch is not fatal: after the skip the loop continues with
\* the next batch, every batch of the loader is visited exactly once whether
\* or not batches are skipped, and the function returns once the loader is
\* exhausted.
C22_SkipNotFatal ==
    /\ [](idx <= nBatches)
    /\ [](trpc = "done" => (idx = nBatches /\ skipped + params = nBatches /\ Len(ret) = 3))
    /\ [][idx' \in {idx, idx + 1}
          /\ ((trpc = "guard" /\ GuardSkips(loss, epoch)) => (trpc' = "fetch" /\ idx' = idx))]_vars
    /\ ((trpc = "fetch" /\ skipped > 0) ~> (trpc \in {"done", "raised"}))

\* C22 witness: the first of two batches was skipped, the second stepped, and
\* the function has returned.
C22_Witness ==
    /\ trpc = "done" /\ idx = 2 /\ nBatches = 2 /\ skipped = 1 /\ params = 1
    /\ ~GuardSkips(loss, epoch) /\ Len(ret) = 3

\* C26: in train_cluster_patch_inner the prototype weights are written only by
\* optimizer.step: the teacher-target phase leaves the prototype weights, the
\* embeddings and the cosine-similarity tensors unchanged, and on a skipped
\* batch the prototype weights after the batch equal those before it.
C26_PrototypesWrittenOnlyByStep ==
    fn = "cluster_patch" =>
        /\ store["prototypes.weight"] = <<"weights", params>>
        /\ ~Called("step") => params = paramsAtBatch
        /\ Called("sinkhorn") =>
              /\ store["emb1"] = <<"emb", 1, idx>>
              /\ store["emb2"] = <<"emb", 2, idx>>
              /\ store["cos_sim1"] =
                    <<"matmul", <<"emb", 1, idx>>,
                      <<"normalize", <<"weights", paramsAtBatch>>>>>>
              /\ store["cos_sim2"] =
                    <<"matmul", <<"emb", 2, idx>>,
                      <<"normalize", <<"weights", paramsAtBatch>>>>>>
        /\ (BatchFinished /\ GuardSkips(loss, epoch)) =>
              store["prototypes.weight"] = <<"weights", paramsAtBatch>>

\* C26 witness: after a stepped batch, the teacher targets of a second batch
\* were computed and that batch was skipped.
C26_Witness ==
    /\ fn = "cluster_patch" /\ trpc = "fetch" /\ idx = 2 /\ BatchFinished
    /\ GuardSkips(loss, epoch) /\ params = 1
    /\ store["exp1"][1] = "sinkhorn"
    /\ store["prototypes.weight"] = <<"weights", 1>>

\* the sum of v * n over the values h, in order
RECURSIVE WeightedSum(_, _)
WeightedSum(h, n) ==
    IF h = <<>> THEN Zero
    ELSE FAdd(WeightedSum(SubSeq(h, 1, Len(h) - 1), n), FMul(h[Len(h)], R(n, 1)))

AverageOf(h, n) ==
    IF h = <<>> THEN Zero ELSE FDiv(WeightedSum(h, n), R(n * Len(h), 1))

\* the values one meter was given by the applied batches, in order
AppliedLoss1 == [i \in 1..Len(applied) |-> applied[i].loss1]
AppliedLoss2 == [i \in 1..Len(applied) |-> applied[i].loss2]
AppliedLocal == [i \in 1..Len(applied) |-> applied[i].local_loss]
AppliedTotal == [i \in 1..Len(applied) |-> applied[i].loss]

\* C29: a batch discarded by the loss guard updates none of the loss meters,
\* so at the end of an epoch each loss meter's count equals the sum of the
\* batch sizes of the non-skipped batches only and the returned averages are
\* over applied steps only; if every batch of the epoch is skipped (or the
\* loader is empty) the returned averages are 0.
C29_MetersCountAppliedOnly ==
    trpc \in {"fetch", "done"} =>
        /\ Len(applied) = params
        /\ meters.mg_loss_meter.count = bsz * params
        /\ meters.loss_meter.count = bsz * params
        /\ meters.prob_meter.count = bsz * params
        /\ meters.total_loss_meter.count = bsz * params
        /\ meters.mg_loss_meter.sum = WeightedSum(AppliedLoss1, bsz)
        /\ meters.loss_meter.sum = WeightedSum(AppliedLoss2, bsz)
        /\ meters.prob_meter.sum = WeightedSum(AppliedLocal, bsz)
        /\ meters.total_loss_meter.sum = WeightedSum(AppliedTotal, bsz)
        /\ \A i \in 1..Len(applied) : ~GuardSkips(applied[i].loss, epoch)
        /\ trpc = "done" =>
              /\ ret = <<AverageOf(AppliedLoss1, bsz), AverageOf(AppliedLocal, bsz),
                         AverageOf(AppliedTotal, bsz)>>
              /\ params = 0 => ret = <<Zero, Zero, Zero>>

\* C29 witness: both batches of an epoch were skipped and the averages
\* returned are 0.
C29_Witness ==
    /\ trpc = "done" /\ idx = 2 /\ skipped = 2 /\ params = 0
    /\ ret = <<Zero, Zero, Zero>>


(***************************************************************************)
(* The epoch loop of train_3d, train_3d.py:                                *)
(*     for epoch in range(0, args.epochs + 1):                             *)
(* the learning-rate adjustment, one per-epoch training call, the         *)
(* validation block and the checkpoint block per iteration.  The model,    *)
(* the optimizer and the data loaders are outside this repository.         *)
(***************************************************************************)
MaxArgEpochs == 6  \* args.epochs is drawn from 0..MaxArgEpochs,
MaxLongEpochs == 250  \* from the save epochs, or is MaxLongEpochs

\* N = 8  # Grid row/col size
GridN == 8

\* if epoch % 100 == 0 or epoch == 240:
SaveEvery == 100
FinalSaveEpoch == 240

\* save_file = run_dir + '.pt'
SaveFile == "run_dir.pt"

EpochChoices == (0..MaxArgEpochs) \cup {2 * SaveEvery, FinalSaveEpoch, MaxLongEpochs}

\* variant of SavesAt: the periodic condition alone
SavesAtPeriodOnly(e) == e % SaveEvery = 0

\* if epoch % 100 == 0 or epoch == 240:
SavesAt(e) == e % SaveEvery = 0 \/ e = FinalSaveEpoch

\* state = {'opt': args, 'state_dict': model.module.state_dict(),
\*          'optimizer': optimizer.state_dict(), 'epoch': epoch}
\* The model's and the optimizer's states are represented by the number of
\* per-epoch training calls that produced them.
CheckpointState(epochs, nTrained, e) ==
    [opt |-> epochs, state_dict |-> nTrained, optimizer |-> nTrained, epoch |-> e]

\* torch.save(state, save_file): the file at path is replaced
TorchSave(fs, path, state) ==
    [p \in DOMAIN fs \cup {path} |-> IF p = path THEN state ELSE fs[p]]

EpInit ==
    /\ eppc = "adjust"
    /\ argEpochs \in EpochChoices
    /\ argModel \in {"pcrlv2", "cluster", "cluster_patch"}
    /\ argClusterLoss \in {"ce", "swav"}
    /\ argVis \in BOOLEAN
    /\ argTensorboard \in BOOLEAN
    /\ argWriter \in BOOLEAN
    /\ ep = 0 /\ trainCalls = <<>> /\ saved = <<>> /\ files = NoFiles
    /\ valCalls = <<>>

\* the last value of range(0, args.epochs + 1)
LastEpoch(epochs) == epochs

\* adjust_learning_rate(epoch, args, optimizer):
\*     lr *= 0.5 * (1. + math.cos(math.pi * epoch / args.epochs))
\* raises ZeroDivisionError when args.epochs is 0.  The learning rate lives
\* in the optimizer, outside this repository, and is not tracked.
EpochAdjustLr ==
    /\ eppc = "adjust"
    /\ eppc' = IF argEpochs = 0 THEN "raised" ELSE "train"
    /\ UNCHANGED <<argEpochs, argModel, ep, trainCalls, saved, files,
                   argClusterLoss, argVis, valCalls, argTensorboard, argWriter>>
    /\ UNCHANGED <<skVars, smVars, roiVars, lossVars, trVars, mtVars, axVars, fsVars, rrVars>>

\* The per-epoch training function can end in an exception: that of
\* roi_align_intersect (an empty slice), which it calls when it aligns the
\* two crops, and, in the cluster functions with args.vis on, that of
\* writer.add_image on a writer that is None, which the first batch of a
\* loader that has one reaches.
TrainMayRaise(m, cl, vis, writer) ==
    /\ m \in {"cluster", "cluster_patch"}
    /\ RunsSecondView(m, cl) \/ (vis /\ ~writer)

\* if args.tensorboard: writer.add_scalar('loss/train', total_loss, epoch)
\* raises on a writer that is None
LogRaises(tensorboard, writer) == tensorboard /\ ~writer

\* train_pcrlv2_inner / train_cluster_inner / train_cluster_patch_inner(args, epoch, ...)
\* and the logging of its loss: the call returns and the loss is logged, or an
\* exception leaves train_3d
EpochTrain ==
    /\ eppc = "train"
    /\ trainCalls' = Append(trainCalls, <<argModel, ep>>)
    /\ \/ ~LogRaises(argTensorboard, argWriter) /\ eppc' = "validate"
       \/ /\ \/ TrainMayRaise(argModel, argClusterLoss, argVis, argWriter)
             \/ LogRaises(argTensorboard, argWriter)
          /\ eppc' = "raised"
    /\ UNCHANGED <<argEpochs, argModel, ep, saved, files, argClusterLoss, argVis,
                   valCalls, argTensorboard, argWriter>>
    /\ UNCHANGED <<skVars, smVars, roiVars, lossVars, trVars, mtVars, axVars, fsVars, rrVars>>

\* if args.vis and (epoch % step_epochs == 0) and (epoch / step_epochs) <= n_epochs
\*    and 'cluster' in args.model
\* with n_epochs = min(N, args.epochs), step_epochs = args.epochs // n_epochs
Validates(vis, m, e, epochs) ==
    LET n_epochs == Min2(GridN, epochs)
        step_epochs == epochs \div n_epochs
    IN  /\ vis
        /\ e % step_epochs = 0
        /\ e <= n_epochs * step_epochs
        /\ m \in {"cluster", "cluster_patch"}

\* n_epochs = min(N,args.epochs); step_epochs = args.epochs // n_epochs
\* (ZeroDivisionError when args.epochs is 0), then the validation block:
\* val_cluster_inner / val_cluster_patch_inner and the plot of the grid, which
\* return or raise depending on the eval loader and args.b, and
\* writer.add_image, which raises on a writer that is None
EpochValidate ==
    /\ eppc = "validate"
    /\ IF Min2(GridN, argEpochs) = 0
       THEN eppc' = "raised" /\ UNCHANGED valCalls
       ELSE IF Validates(argVis, argModel, ep, argEpochs)
       THEN /\ valCalls' = Append(valCalls, ep)
            /\ eppc' \in IF argWriter THEN {"save", "raised"} ELSE {"raised"}
       ELSE eppc' = "save" /\ UNCHANGED valCalls
    /\ UNCHANGED <<argEpochs, argModel, ep, trainCalls, saved, files,
                   argClusterLoss, argVis, argTensorboard, argWriter>>
    /\ UNCHANGED <<skVars, smVars, roiVars, lossVars, trVars, mtVars, axVars, fsVars, rrVars>>

\* if epoch % 100 == 0 or epoch == 240: torch.save(state, run_dir + '.pt');
\* then the next value of the range, if any
EpochSave ==
    /\ eppc = "save"
    /\ IF SavesAt(ep)
       THEN /\ saved' = Append(saved, ep)
            /\ files' = TorchSave(files, SaveFile,
                                  CheckpointState(argEpochs, Len(trainCalls), ep))
       ELSE UNCHANGED <<saved, files>>
    /\ IF ep < LastEpoch(argEpochs)
       THEN ep' = ep + 1 /\ eppc' = "adjust"
       ELSE ep' = ep /\ eppc' = "done"
    /\ UNCHANGED <<argEpochs, argModel, trainCalls, argClusterLoss, argVis, valCalls,
                   argTensorboard, argWriter>>
    /\ UNCHANGED <<skVars, smVars, roiVars, lossVars, trVars, mtVars, axVars, fsVars, rrVars>>

EpNext ==
    \/ EpochAdjustLr
    \/ EpochTrain
    \/ EpochValidate
    \/ EpochSave

InitEpochs == EpInit /\ SkIdle /\ SmIdle /\ RoiIdle /\ LossIdle /\ TrIdle /\ MtIdle /\ AxIdle /\ FsIdle /\ RrIdle

SpecEpochs == InitEpochs /\ [][EpNext]_vars

\* C16: train_3d invokes the per-epoch training function exactly args.epochs
\* times (the configured epoch count) before it finishes.
C16_TrainCalledEpochsTimes ==
    eppc = "done" => Len(trainCalls) = argEpochs

\* the epochs whose end the loop has reached
EpochsEnded == IF eppc = "done" THEN 0..ep ELSE 0..(ep - 1)

\* the condition of the claim: e % 100 == 0 or e == 240
Qualifies(e) == e % 100 = 0 \/ e = 240

QualifiedUpTo == {e \in EpochsEnded : Qualifies(e)}

\* C28: a checkpoint (keys opt, state_dict, optimizer, epoch) is written at
\* the end of epoch e exactly when e % 100 == 0 or e == 240, always to the same
\* file, so after any epoch e the file holds the state of the largest epoch
\* e' <= e satisfying that condition; the state after the last epoch is
\* persisted only if the last epoch number satisfies it.
C28_CheckpointSchedule ==
    /\ \A e \in EpochsEnded : (\E i \in 1..Len(saved) : saved[i] = e) <=> Qualifies(e)
    /\ \A i \in 1..Len(saved) : saved[i] \in EpochsEnded
    /\ DOMAIN files \subseteq {SaveFile}
    /\ (QualifiedUpTo = {}) <=> (files = NoFiles)
    /\ QualifiedUpTo # {} =>
          LET last == CHOOSE e \in QualifiedUpTo : \A f \in QualifiedUpTo : f <= e
              state == files[SaveFile]
          IN  /\ DOMAIN state = {"opt", "state_dict", "optimizer", "epoch"}
              /\ state.epoch = last
              /\ state.state_dict = last + 1 /\ state.optimizer = last + 1
              /\ state.opt = argEpochs
              /\ eppc = "done" => (state.state_dict = Len(trainCalls) <=> Qualifies(ep))

\* C28 witness: a run of 250 epochs has finished; checkpoints were written at
\* epochs 0, 100, 200 and 240 and the file holds the state of epoch 240, not
\* of the last epoch.
C28_Witness ==
    /\ eppc = "done" /\ ep > 240
    /\ saved = <<0, 100, 200, 240>>
    /\ files[SaveFile].epoch = 240
    /\ files[SaveFile].state_dict < Len(trainCalls)

=============================================================================
